---- MODULE Spec2Model ----
(***************************************************************************)
(* Axioma trading core: the in-memory MatchingEngine (price-time priority  *)
(* limit order book), the pure settlement calculator, the transactional    *)
(* ledger / position helpers and the HTTP handlers that sequence them.     *)
(*                                                                         *)
(* Money is counted in units of 1/10000 USDC, so that price x quantity and *)
(* the 1% taker fee of any trade are integers: a price of 0.55 is 5500     *)
(* units per share, quantities are whole shares.                           *)
(***************************************************************************)
EXTENDS Integers, Sequences, FiniteSets, TLC

VARIABLES
  buyOrders,     \* MatchingEngine.buyOrders of the engine under test
  sellOrders,    \* MatchingEngine.sellOrders of the engine under test
  engineLast,    \* the last engine call: its name, argument, the book before it, its result
  engineCalls,   \* number of addOrder calls made so far (ids of the orders handed in)
  settleInput,   \* the TradeSettlementInput handed to calculateTradeSettlement
  settleResult,  \* the TradeSettlementResult it returned (NoResult before the call)
  marketStatus,  \* Market.status of the one market: OPEN, RESOLVED or CANCELLED
  resolutions,   \* the MarketResolution rows
  balances,      \* the Balance rows: userId -> [available, reserved]
  positions,     \* the Position rows of the market: userId -> outcome -> [shares, reservedShares]
  orders,        \* the Order rows, in creation order (the id of a row is its index)
  trades,        \* the Trade rows, in creation order
  ledger,        \* the LedgerEntry rows, in creation order
  orderBooks,    \* the in-memory orderBooks entry of the market: outcome -> engine
  lastEvent,     \* the last request handled: its arguments, reply and the rows before it
  inflight,      \* the requests in progress, in the order they began, each at an await
  begun,         \* number of requests begun while handlers interleave
  rowLocking     \* whether the read of a row by an upsert locks it until the commit

engineVars == <<buyOrders, sellOrders, engineLast, engineCalls>>
settleVars == <<settleInput, settleResult>>
apiVars == <<marketStatus, resolutions, balances, positions, orders, trades, ledger,
             orderBooks, lastEvent>>
concVars == <<inflight, begun, rowLocking>>

vars == <<buyOrders, sellOrders, engineLast, engineCalls, settleInput, settleResult,
          marketStatus, resolutions, balances, positions, orders, trades, ledger,
          orderBooks, lastEvent, inflight, begun, rowLocking>>

----------------------------------------------------------------------------
(* Bounds of the model *)

MaxEngineOrders == 3      \* addOrder calls explored on one engine
MaxOrders == 3            \* Order rows created through the API

(* Program constants *)
TakerFeeRateNum == 1      \* DEFAULT_FEE_CONFIG.takerFeeRate = 0.01 = 1/100
TakerFeeRateDen == 100
SharePayout == 10000      \* a winning share redeems at 1.0 USDC
MinPrice == 100           \* CreateOrderSchema: 0.01 <= price
MaxPrice == 9900          \* CreateOrderSchema: price <= 0.99
MaxQuantity == 1000000    \* CreateOrderSchema: quantity <= 1000000

Users == {"u1", "u2"}
SYSTEM_USER_ID == "system"
Outcomes == {"YES", "NO"}
Sides == {"BUY", "SELL"}
Prices == {5500, 6000}    \* 0.55 and 0.60
Qtys == {1, 2, 3}
OrderQtys == {50, 100}    \* quantities of the orders placed through the API
Callers == Users \cup {"admin"}
Times == {1, 2}           \* createdAt values handed to the engine

NoOrder == [id |-> 0]     \* null

\* no engine call made yet
NoCall == [op |-> "none", order |-> NoOrder, preBuys |-> <<>>, preSells |-> <<>>,
           matches |-> <<>>, remainingOrder |-> NoOrder]

Min(a, b) == IF a <= b THEN a ELSE b

----------------------------------------------------------------------------
(* packages/ledger: fee configuration *)

calculateTakerFee(tradeValue) == (tradeValue * TakerFeeRateNum) \div TakerFeeRateDen

----------------------------------------------------------------------------
(* packages/engine/src/matching.ts: MatchingEngine *)

\* the EngineOrder handed to addOrder
EngineOrder(id, u, side, price, qty, t) ==
  [id |-> id, userId |-> u, side |-> side, price |-> price,
   quantity |-> qty, remaining |-> qty, createdAt |-> t]

\* findIndex: the first index whose element satisfies Test, 0 when there is none (-1)
FindIndex(book, Test(_)) ==
  IF \E i \in 1..Len(book) : Test(book[i])
  THEN CHOOSE i \in 1..Len(book) : Test(book[i]) /\ \A j \in 1..(i - 1) : ~Test(book[j])
  ELSE 0

\* splice(idx, 0, order) / push(order)
InsertAt(book, idx, order) ==
  IF idx = 0 THEN Append(book, order)
  ELSE SubSeq(book, 1, idx - 1) \o <<order>> \o SubSeq(book, idx, Len(book))

\* splice(idx, 1)
RemoveAt(book, idx) == SubSeq(book, 1, idx - 1) \o SubSeq(book, idx + 1, Len(book))

\* mutants of the insertion tests: a tie on createdAt goes in front / createdAt ignored
BuyGoesBeforeUnstable(order, o) ==
  o.price < order.price \/ (o.price = order.price /\ o.createdAt >= order.createdAt)

SellGoesBeforeNoTime(order, o) == o.price > order.price

BuyGoesBefore(order, o) ==
  o.price < order.price \/ (o.price = order.price /\ o.createdAt > order.createdAt)

SellGoesBefore(order, o) ==
  o.price > order.price \/ (o.price = order.price /\ o.createdAt > order.createdAt)

insertBuyOrder(book, order) ==
  InsertAt(book, FindIndex(book, LAMBDA o : BuyGoesBefore(order, o)), order)

insertSellOrder(book, order) ==
  InsertAt(book, FindIndex(book, LAMBDA o : SellGoesBefore(order, o)), order)

\* mutant of the BUY loop condition: lt instead of lte
BuyCrossesStrict(taker, maker) == maker.price < taker.price

\* mutant of the SELL loop condition: gt instead of gte
SellCrossesStrict(taker, maker) == maker.price > taker.price

\* the loop conditions on the head of the opposite side
BuyCrosses(taker, maker) == maker.price <= taker.price
SellCrosses(taker, maker) == maker.price >= taker.price

\* mutant of matchQty: one unit per iteration
MatchQtyUnit(taker, maker) == Min(1, taker.remaining)

\* mutant of matchQty: the maker's remaining, whatever the taker has left
MatchQtyMaker(taker, maker) == maker.remaining

\* mutant of matchPrice: the taker's limit price
MatchPriceTaker(taker, maker) == taker.price

MatchQty(taker, maker) == Min(taker.remaining, maker.remaining)

MatchPrice(taker, maker) == maker.price

MakeMatch(taker, maker) ==
  LET matchQty == MatchQty(taker, maker)
      matchPrice == MatchPrice(taker, maker)
      tradeValue == matchQty * matchPrice
  IN [makerOrderId |-> maker.id, takerOrderId |-> taker.id,
      makerUserId |-> maker.userId, takerUserId |-> taker.userId,
      price |-> matchPrice, quantity |-> matchQty,
      takerFee |-> calculateTakerFee(tradeValue)]

\* one iteration of a matching loop: the opposite side after the head maker was hit
HitHead(opp, matchQty) ==
  IF opp[1].remaining - matchQty = 0
  THEN Tail(opp)
  ELSE [opp EXCEPT ![1].remaining = @ - matchQty]

RECURSIVE BuyLoop(_, _, _)
BuyLoop(currentOrder, sells, matches) ==
  IF currentOrder.remaining > 0 /\ Len(sells) > 0 /\ BuyCrosses(currentOrder, sells[1])
  THEN LET m == MakeMatch(currentOrder, sells[1])
       IN BuyLoop([currentOrder EXCEPT !.remaining = @ - m.quantity],
                  HitHead(sells, m.quantity), Append(matches, m))
  ELSE [currentOrder |-> currentOrder, opp |-> sells, matches |-> matches]

RECURSIVE SellLoop(_, _, _)
SellLoop(currentOrder, buys, matches) ==
  IF currentOrder.remaining > 0 /\ Len(buys) > 0 /\ SellCrosses(currentOrder, buys[1])
  THEN LET m == MakeMatch(currentOrder, buys[1])
       IN SellLoop([currentOrder EXCEPT !.remaining = @ - m.quantity],
                   HitHead(buys, m.quantity), Append(matches, m))
  ELSE [currentOrder |-> currentOrder, opp |-> buys, matches |-> matches]

\* addOrder as a function of the book: the book afterwards and the returned value
addOrder(buys, sells, order) ==
  IF order.side = "BUY"
  THEN LET r == BuyLoop(order, sells, <<>>)
       IN [buys |-> IF r.currentOrder.remaining > 0
                    THEN insertBuyOrder(buys, r.currentOrder) ELSE buys,
           sells |-> r.opp,
           matches |-> r.matches,
           remainingOrder |-> IF r.currentOrder.remaining = 0 THEN NoOrder ELSE r.currentOrder]
  ELSE LET r == SellLoop(order, buys, <<>>)
       IN [buys |-> r.opp,
           sells |-> IF r.currentOrder.remaining > 0
                     THEN insertSellOrder(sells, r.currentOrder) ELSE sells,
           matches |-> r.matches,
           remainingOrder |-> IF r.currentOrder.remaining = 0 THEN NoOrder ELSE r.currentOrder]

\* mutant of cancelOrder: the head of the side is spliced out, not the order found
cancelOrderSplicesHead(buys, sells, orderId) ==
  LET buyIndex == FindIndex(buys, LAMBDA o : o.id = orderId)
      sellIndex == FindIndex(sells, LAMBDA o : o.id = orderId)
  IN IF buyIndex # 0
     THEN [buys |-> RemoveAt(buys, 1), sells |-> sells, removed |-> buys[1]]
     ELSE IF sellIndex # 0
     THEN [buys |-> buys, sells |-> RemoveAt(sells, 1), removed |-> sells[1]]
     ELSE [buys |-> buys, sells |-> sells, removed |-> NoOrder]

\* cancelOrder as a function of the book
cancelOrder(buys, sells, orderId) ==
  LET buyIndex == FindIndex(buys, LAMBDA o : o.id = orderId)
      sellIndex == FindIndex(sells, LAMBDA o : o.id = orderId)
  IN IF buyIndex # 0
     THEN [buys |-> RemoveAt(buys, buyIndex), sells |-> sells, removed |-> buys[buyIndex]]
     ELSE IF sellIndex # 0
     THEN [buys |-> buys, sells |-> RemoveAt(sells, sellIndex), removed |-> sells[sellIndex]]
     ELSE [buys |-> buys, sells |-> sells, removed |-> NoOrder]

getAllOrders(buys, sells) == buys \o sells

----------------------------------------------------------------------------
(* packages/engine/src/settlement.ts: the pure settlement calculator *)

LedgerEntry(u, dAvailable, dReserved, reason) ==
  [userId |-> u, deltaAvailable |-> dAvailable, deltaReserved |-> dReserved,
   reason |-> reason]

PositionUpdate(u, outcome, dShares, dReservedShares) ==
  [userId |-> u, outcome |-> outcome, deltaShares |-> dShares,
   deltaReservedShares |-> dReservedShares]

\* a position update of a trade: it carries the trade price for the average price
TradePositionUpdate(u, outcome, dShares, dReservedShares, tradePrice) ==
  [userId |-> u, outcome |-> outcome, deltaShares |-> dShares,
   deltaReservedShares |-> dReservedShares, tradePrice |-> tradePrice]

\* mutant of calculateTradeSettlement: the seller receives the trade value, fee included
calculateTradeSettlementGrossToSeller(trade) ==
  LET tradeValue == trade.quantity * trade.price
      netToSeller == tradeValue
  IN IF trade.makerSide = "SELL"
     THEN [ledgerEntries |->
             <<LedgerEntry(trade.takerUserId, 0, -tradeValue, "TRADE_BUY")>>
             \o (IF trade.takerFee > 0
                 THEN <<LedgerEntry(trade.takerUserId, -trade.takerFee, 0, "TRADE_FEE"),
                        LedgerEntry(SYSTEM_USER_ID, trade.takerFee, 0, "TRADE_FEE")>>
                 ELSE <<>>)
             \o <<LedgerEntry(trade.makerUserId, netToSeller, 0, "TRADE_SELL")>>,
           positionUpdates |->
             <<TradePositionUpdate(trade.takerUserId, trade.outcome, trade.quantity, 0,
                                   trade.price),
               TradePositionUpdate(trade.makerUserId, trade.outcome,
                                   -trade.quantity, -trade.quantity, trade.price)>>]
     ELSE [ledgerEntries |->
             <<LedgerEntry(trade.makerUserId, 0, -tradeValue, "TRADE_BUY"),
               LedgerEntry(trade.takerUserId, netToSeller, 0, "TRADE_SELL")>>
             \o (IF trade.takerFee > 0
                 THEN <<LedgerEntry(SYSTEM_USER_ID, trade.takerFee, 0, "TRADE_FEE")>>
                 ELSE <<>>),
           positionUpdates |->
             <<TradePositionUpdate(trade.makerUserId, trade.outcome, trade.quantity, 0,
                                   trade.price),
               TradePositionUpdate(trade.takerUserId, trade.outcome,
                                   -trade.quantity, -trade.quantity, trade.price)>>]

calculateTradeSettlement(trade) ==
  LET tradeValue == trade.quantity * trade.price
      netToSeller == tradeValue - trade.takerFee
  IN IF trade.makerSide = "SELL"
     THEN [ledgerEntries |->
             <<LedgerEntry(trade.takerUserId, 0, -tradeValue, "TRADE_BUY")>>
             \o (IF trade.takerFee > 0
                 THEN <<LedgerEntry(trade.takerUserId, -trade.takerFee, 0, "TRADE_FEE"),
                        LedgerEntry(SYSTEM_USER_ID, trade.takerFee, 0, "TRADE_FEE")>>
                 ELSE <<>>)
             \o <<LedgerEntry(trade.makerUserId, netToSeller, 0, "TRADE_SELL")>>,
           positionUpdates |->
             <<TradePositionUpdate(trade.takerUserId, trade.outcome, trade.quantity, 0,
                                   trade.price),
               TradePositionUpdate(trade.makerUserId, trade.outcome,
                                   -trade.quantity, -trade.quantity, trade.price)>>]
     ELSE [ledgerEntries |->
             <<LedgerEntry(trade.makerUserId, 0, -tradeValue, "TRADE_BUY"),
               LedgerEntry(trade.takerUserId, netToSeller, 0, "TRADE_SELL")>>
             \o (IF trade.takerFee > 0
                 THEN <<LedgerEntry(SYSTEM_USER_ID, trade.takerFee, 0, "TRADE_FEE")>>
                 ELSE <<>>),
           positionUpdates |->
             <<TradePositionUpdate(trade.makerUserId, trade.outcome, trade.quantity, 0,
                                   trade.price),
               TradePositionUpdate(trade.takerUserId, trade.outcome,
                                   -trade.quantity, -trade.quantity, trade.price)>>]

calculateBuyReserve(userId, price, quantity) ==
  LET reserveAmount == price * quantity
  IN LedgerEntry(userId, -reserveAmount, reserveAmount, "ORDER_RESERVE")

\* mutant of calculateOrderRelease: the amount returns to available and stays reserved
calculateOrderReleaseKeepsReserved(userId, price, remainingQuantity) ==
  LET releaseAmount == price * remainingQuantity
  IN LedgerEntry(userId, releaseAmount, 0, "ORDER_RESERVE_RELEASE")

calculateOrderRelease(userId, price, remainingQuantity) ==
  LET releaseAmount == price * remainingQuantity
  IN LedgerEntry(userId, releaseAmount, -releaseAmount, "ORDER_RESERVE_RELEASE")

\* the sum of deltaAvailable + deltaReserved over the entries that satisfy Keep
SumDeltasIf(entries, Keep(_)) ==
  LET RECURSIVE S(_)
      S(k) == IF k = 0 THEN 0
              ELSE S(k - 1) + (IF Keep(entries[k])
                               THEN entries[k].deltaAvailable + entries[k].deltaReserved
                               ELSE 0)
  IN S(Len(entries))

----------------------------------------------------------------------------
(* packages/db: the rows a transaction works on, applyLedger and updatePosition *)

AllUsers == Users \cup {SYSTEM_USER_ID}

\* the rows as a transaction client sees them; ok turns FALSE when a statement throws,
\* after which the rest of the transaction is skipped and nothing of it is committed
Db ==
  [marketStatus |-> marketStatus, resolutions |-> resolutions, balances |-> balances,
   positions |-> positions, orders |-> orders, trades |-> trades, ledger |-> ledger,
   ok |-> TRUE]

\* mutant of applyLedger: the check of the new reserved balance is missing
applyLedgerNoReservedCheck(tx, input) ==
  LET balance == tx.balances[input.userId]
      newAvailable == balance.available + input.deltaAvailable
      newReserved == balance.reserved + input.deltaReserved
  IN IF ~tx.ok THEN tx
     ELSE IF newAvailable < 0 THEN [tx EXCEPT !.ok = FALSE]
     ELSE [tx EXCEPT !.ledger = Append(@, input),
                     !.balances[input.userId] =
                        [available |-> newAvailable, reserved |-> newReserved]]

applyLedger(tx, input) ==
  LET balance == tx.balances[input.userId]
      newAvailable == balance.available + input.deltaAvailable
      newReserved == balance.reserved + input.deltaReserved
  IN IF ~tx.ok THEN tx
     ELSE IF newAvailable < 0 THEN [tx EXCEPT !.ok = FALSE]
     ELSE IF newReserved < 0 THEN [tx EXCEPT !.ok = FALSE]
     ELSE [tx EXCEPT !.ledger = Append(@, input),
                     !.balances[input.userId] =
                        [available |-> newAvailable, reserved |-> newReserved]]

\* mutant of applyLedgerBatch: an entry that is refused is skipped and the rest applied
RECURSIVE applyLedgerBatchSkipsRefused(_, _)
applyLedgerBatchSkipsRefused(tx, inputs) ==
  IF inputs = <<>> THEN tx
  ELSE applyLedgerBatchSkipsRefused(
         IF applyLedger(tx, Head(inputs)).ok THEN applyLedger(tx, Head(inputs)) ELSE tx,
         Tail(inputs))

RECURSIVE applyLedgerBatch(_, _)
applyLedgerBatch(tx, inputs) ==
  IF inputs = <<>> THEN tx
  ELSE applyLedgerBatch(applyLedger(tx, Head(inputs)), Tail(inputs))

updatePosition(tx, input) ==
  LET position == tx.positions[input.userId][input.outcome]
      newShares == position.shares + input.deltaShares
      newReserved == position.reservedShares + input.deltaReservedShares
  IN IF ~tx.ok THEN tx
     ELSE IF newShares < 0 THEN [tx EXCEPT !.ok = FALSE]
     ELSE IF newReserved < 0 THEN [tx EXCEPT !.ok = FALSE]
     ELSE IF newReserved > newShares THEN [tx EXCEPT !.ok = FALSE]
     ELSE [tx EXCEPT !.positions[input.userId][input.outcome] =
                        [shares |-> newShares, reservedShares |-> newReserved]]

\* for (const posUpdate of ...) await updatePosition(tx, posUpdate)
RECURSIVE updatePositions(_, _)
updatePositions(tx, inputs) ==
  IF inputs = <<>> THEN tx
  ELSE updatePositions(updatePosition(tx, Head(inputs)), Tail(inputs))

----------------------------------------------------------------------------
(* packages/engine/src/settlement.ts: resolution and cancellation plans *)

\* the Position rows of the market in the order findMany returns them; the plans do
\* not depend on that order beyond the order of their entries
PositionKeys == <<<<"u1", "YES">>, <<"u1", "NO">>, <<"u2", "YES">>, <<"u2", "NO">>>>

\* the market of the routes; prisma.position.findMany({ where: { marketId } })
MarketId == "market-1"

PositionRows(db) ==
  [k \in 1..Len(PositionKeys) |->
     [userId |-> PositionKeys[k][1], marketId |-> MarketId, outcome |-> PositionKeys[k][2],
      shares |-> db.positions[PositionKeys[k][1]][PositionKeys[k][2]].shares,
      reservedShares |-> db.positions[PositionKeys[k][1]][PositionKeys[k][2]].reservedShares]]

\* mutant of calculateSettlement: positions of other markets are settled too
RECURSIVE calculateSettlementAnyMarket(_, _, _)
calculateSettlementAnyMarket(marketId, winningOutcome, posRows) ==
  IF posRows = <<>> THEN [ledgerEntries |-> <<>>, positionUpdates |-> <<>>]
  ELSE LET position == Head(posRows)
           rest == calculateSettlementAnyMarket(marketId, winningOutcome, Tail(posRows))
       IN IF position.shares = 0 THEN rest
          ELSE [ledgerEntries |->
                  <<IF position.outcome = winningOutcome
                    THEN LedgerEntry(position.userId, position.shares * SharePayout, 0,
                                     "SETTLEMENT_WIN")
                    ELSE LedgerEntry(position.userId, 0, 0, "SETTLEMENT_LOSS")>>
                  \o rest.ledgerEntries,
                positionUpdates |->
                  <<[userId |-> position.userId, outcome |-> position.outcome,
                     newShares |-> 0, newReservedShares |-> 0]>>
                  \o rest.positionUpdates]

RECURSIVE calculateSettlement(_, _, _)
calculateSettlement(marketId, winningOutcome, posRows) ==
  IF posRows = <<>> THEN [ledgerEntries |-> <<>>, positionUpdates |-> <<>>]
  ELSE LET position == Head(posRows)
           rest == calculateSettlement(marketId, winningOutcome, Tail(posRows))
       IN IF position.marketId # marketId THEN rest
          ELSE IF position.shares = 0 THEN rest
          ELSE [ledgerEntries |->
                  <<IF position.outcome = winningOutcome
                    THEN LedgerEntry(position.userId, position.shares * SharePayout, 0,
                                     "SETTLEMENT_WIN")
                    ELSE LedgerEntry(position.userId, 0, 0, "SETTLEMENT_LOSS")>>
                  \o rest.ledgerEntries,
                positionUpdates |->
                  <<[userId |-> position.userId, outcome |-> position.outcome,
                     newShares |-> 0, newReservedShares |-> 0]>>
                  \o rest.positionUpdates]

\* sellOrderReserves: one entry per user:outcome, in the order of first appearance
RECURSIVE SellOrderReserves(_, _)
SellOrderReserves(openOrders, acc) ==
  IF openOrders = <<>> THEN acc
  ELSE LET order == Head(openOrders)
           idx == FindIndex(acc, LAMBDA r : r.userId = order.userId /\ r.outcome = order.outcome)
       IN SellOrderReserves(Tail(openOrders),
            IF order.side = "BUY" THEN acc
            ELSE IF idx = 0
            THEN Append(acc, [userId |-> order.userId, outcome |-> order.outcome,
                              releaseReservedShares |-> order.remaining])
            ELSE [acc EXCEPT ![idx].releaseReservedShares = @ + order.remaining])

RECURSIVE CancellationRefunds(_)
CancellationRefunds(openOrders) ==
  IF openOrders = <<>> THEN <<>>
  ELSE LET order == Head(openOrders)
       IN (IF order.side = "BUY"
           THEN <<LedgerEntry(order.userId, order.remaining * order.price,
                              -(order.remaining * order.price), "MARKET_CANCEL_REFUND")>>
           ELSE <<>>)
          \o CancellationRefunds(Tail(openOrders))

calculateCancellation(openOrders) ==
  [ledgerEntries |-> CancellationRefunds(openOrders),
   positionUpdates |-> SellOrderReserves(openOrders, <<>>),
   orderIds |-> [k \in 1..Len(openOrders) |-> openOrders[k].id]]

----------------------------------------------------------------------------
(* apps/api/src/routes/portfolio.ts, the market routes: POST /:id/orders *)

NoEvent == [op |-> "none", status |-> 0]

\* mutant of CreateOrderSchemaOk: every body is accepted
CreateOrderSchemaAcceptsAll(price, quantity) == TRUE

\* CreateOrderSchema.safeParse(request.body).success, for the price and the quantity
CreateOrderSchemaOk(price, quantity) ==
  /\ price >= MinPrice /\ price <= MaxPrice
  /\ quantity > 0 /\ quantity <= MaxQuantity

OrderRow(id, userId, outcome, side, price, quantity) ==
  [id |-> id, userId |-> userId, outcome |-> outcome, side |-> side, price |-> price,
   quantity |-> quantity, remaining |-> quantity, status |-> "OPEN", createdAt |-> id]

\* the first transaction of a placement: funds or shares check, order row, reservation
ReserveForOrder(db, userId, outcome, side, price, quantity) ==
  LET order == OrderRow(Len(db.orders) + 1, userId, outcome, side, price, quantity)
      created == [db EXCEPT !.orders = Append(@, order)]
      position == db.positions[userId][outcome]
  IN IF side = "BUY"
     THEN IF db.balances[userId].available < price * quantity
          THEN [db EXCEPT !.ok = FALSE]
          ELSE applyLedger(created, calculateBuyReserve(userId, price, quantity))
     ELSE IF position.shares - position.reservedShares < quantity
          THEN [db EXCEPT !.ok = FALSE]
          ELSE updatePosition(created, PositionUpdate(userId, outcome, 0, quantity))

\* mutant of SettleMatch: the maker's row keeps its remaining quantity
SettleMatchKeepsMakerRemaining(db, match, outcome, takerFilled) ==
  LET makerOrder == db.orders[match.makerOrderId]
      traded == [db EXCEPT !.trades = Append(@, [outcome |-> outcome, price |-> match.price,
                    quantity |-> match.quantity, makerOrderId |-> match.makerOrderId,
                    takerOrderId |-> match.takerOrderId, makerUserId |-> match.makerUserId,
                    takerUserId |-> match.takerUserId, takerFee |-> match.takerFee])]
      settlement == calculateTradeSettlement(
                      [makerUserId |-> match.makerUserId, takerUserId |-> match.takerUserId,
                       makerSide |-> makerOrder.side, outcome |-> outcome,
                       price |-> match.price, quantity |-> match.quantity,
                       takerFee |-> match.takerFee])
      settled == updatePositions(applyLedgerBatch(traded, settlement.ledgerEntries),
                                 settlement.positionUpdates)
  IN IF ~settled.ok THEN settled
     ELSE [settled EXCEPT
             !.orders[match.makerOrderId].status =
                IF match.quantity = makerOrder.remaining THEN "FILLED" ELSE "PARTIAL",
             !.orders[match.takerOrderId].remaining = @ - match.quantity,
             !.orders[match.takerOrderId].status =
                IF takerFilled THEN "FILLED" ELSE "PARTIAL"]

\* the transaction that settles one match of a placement
SettleMatch(db, match, outcome, takerFilled) ==
  LET makerOrder == db.orders[match.makerOrderId]
      traded == [db EXCEPT !.trades = Append(@, [outcome |-> outcome, price |-> match.price,
                    quantity |-> match.quantity, makerOrderId |-> match.makerOrderId,
                    takerOrderId |-> match.takerOrderId, makerUserId |-> match.makerUserId,
                    takerUserId |-> match.takerUserId, takerFee |-> match.takerFee])]
      settlement == calculateTradeSettlement(
                      [makerUserId |-> match.makerUserId, takerUserId |-> match.takerUserId,
                       makerSide |-> makerOrder.side, outcome |-> outcome,
                       price |-> match.price, quantity |-> match.quantity,
                       takerFee |-> match.takerFee])
      settled == updatePositions(applyLedgerBatch(traded, settlement.ledgerEntries),
                                 settlement.positionUpdates)
  IN IF ~settled.ok THEN settled
     ELSE [settled EXCEPT
             !.orders[match.makerOrderId].remaining = @ - match.quantity,
             !.orders[match.makerOrderId].status =
                IF match.quantity = makerOrder.remaining THEN "FILLED" ELSE "PARTIAL",
             !.orders[match.takerOrderId].remaining = @ - match.quantity,
             !.orders[match.takerOrderId].status =
                IF takerFilled THEN "FILLED" ELSE "PARTIAL"]

\* for (const match of matchResult.matches): one transaction per match, committed one
\* after the other; the first one that throws ends the request
RECURSIVE ProcessMatches(_, _, _, _, _)
ProcessMatches(db, matches, k, outcome, takerFilled) ==
  IF k > Len(matches) THEN [db |-> db, ok |-> TRUE, settled |-> k - 1, commits |-> <<>>]
  ELSE LET tx == SettleMatch(db, matches[k], outcome, takerFilled)
       IN IF tx.ok
          THEN [ProcessMatches(tx, matches, k + 1, outcome, takerFilled)
                  EXCEPT !.commits = <<tx.orders>> \o @]
          ELSE [db |-> db, ok |-> FALSE, settled |-> k - 1, commits |-> <<>>]

\* the whole handler: the rows and the books after the request, the reply, and the
\* order table as each of the request's transactions committed it
placeOrder(db, books, userId, outcome, side, price, quantity) ==
  LET tx == ReserveForOrder(db, userId, outcome, side, price, quantity)
      id == Len(tx.orders)
      engine == books[outcome]
      matchResult == addOrder(engine.buyOrders, engine.sellOrders,
                              EngineOrder(id, userId, side, price, quantity, id))
      takerFilled == matchResult.remainingOrder = NoOrder
      processed == ProcessMatches(tx, matchResult.matches, 1, outcome, takerFilled)
      newBooks == [books EXCEPT ![outcome] = [buyOrders |-> matchResult.buys,
                                              sellOrders |-> matchResult.sells]]
      final == [processed.db EXCEPT !.orders[id].status = "FILLED",
                                    !.orders[id].remaining = 0]
  IN IF ~CreateOrderSchemaOk(price, quantity)
     THEN [db |-> db, books |-> books, status |-> 400, orderId |-> 0,
           matches |-> <<>>, settled |-> 0, commits |-> <<>>, dataStatus |-> "none"]
     ELSE IF db.marketStatus # "OPEN"
     THEN [db |-> db, books |-> books, status |-> 400, orderId |-> 0,
           matches |-> <<>>, settled |-> 0, commits |-> <<>>, dataStatus |-> "none"]
     ELSE IF ~tx.ok
     THEN [db |-> db, books |-> books, status |-> 500, orderId |-> 0,
           matches |-> <<>>, settled |-> 0, commits |-> <<>>, dataStatus |-> "none"]
     ELSE IF ~processed.ok
     THEN [db |-> processed.db, books |-> newBooks, status |-> 500, orderId |-> id,
           matches |-> matchResult.matches, settled |-> processed.settled,
           commits |-> <<tx.orders>> \o processed.commits, dataStatus |-> "none"]
     ELSE IF takerFilled
     THEN [db |-> final, books |-> newBooks, status |-> 200, orderId |-> id,
           matches |-> matchResult.matches, settled |-> processed.settled,
           commits |-> <<tx.orders>> \o processed.commits \o <<final.orders>>,
           dataStatus |-> "FILLED"]
     ELSE [db |-> processed.db, books |-> newBooks, status |-> 200, orderId |-> id,
           matches |-> matchResult.matches, settled |-> processed.settled,
           commits |-> <<tx.orders>> \o processed.commits,
           dataStatus |-> tx.orders[id].status]

----------------------------------------------------------------------------
(* the order routes: POST /:id/cancel *)

\* caller is the authenticated user; the role ADMIN belongs to the user "admin"
\* mutant of cancelOrderRequest: the check of the order status is missing
cancelOrderRequestNoStatusCheck(db, caller, id) ==
  LET order == db.orders[id]
      cancelled == [db EXCEPT !.orders[id].status = "CANCELLED"]
      tx == IF order.side = "BUY"
            THEN applyLedger(cancelled,
                   calculateOrderRelease(order.userId, order.price, order.remaining))
            ELSE updatePosition(cancelled,
                   PositionUpdate(order.userId, order.outcome, 0, -order.remaining))
  IN IF id \notin 1..Len(db.orders) THEN [db |-> db, status |-> 404]
     ELSE IF order.userId # caller /\ caller # "admin" THEN [db |-> db, status |-> 403]
     ELSE IF ~tx.ok THEN [db |-> db, status |-> 500]
     ELSE [db |-> tx, status |-> 200]

cancelOrderRequest(db, caller, id) ==
  LET order == db.orders[id]
      cancelled == [db EXCEPT !.orders[id].status = "CANCELLED"]
      tx == IF order.side = "BUY"
            THEN applyLedger(cancelled,
                   calculateOrderRelease(order.userId, order.price, order.remaining))
            ELSE updatePosition(cancelled,
                   PositionUpdate(order.userId, order.outcome, 0, -order.remaining))
  IN IF id \notin 1..Len(db.orders) THEN [db |-> db, status |-> 404]
     ELSE IF order.userId # caller /\ caller # "admin" THEN [db |-> db, status |-> 403]
     ELSE IF order.status # "OPEN" /\ order.status # "PARTIAL" THEN [db |-> db, status |-> 400]
     ELSE IF ~tx.ok THEN [db |-> db, status |-> 500]
     ELSE [db |-> tx, status |-> 200]

----------------------------------------------------------------------------
(* apps/api/src/routes/portfolio.ts, the market routes: POST /:id/resolve, /:id/cancel *)

\* getOrCreateOrderBooks on a market without an entry; orderBooks.delete leaves this
EmptyBooks == [oc \in Outcomes |-> [buyOrders |-> <<>>, sellOrders |-> <<>>]]

IsOpenOrder(o) == o.status = "OPEN" \/ o.status = "PARTIAL"

\* prisma.order.findMany({ where: { marketId, status: { in: ['OPEN', 'PARTIAL'] } } })
OpenOrders(db) == SelectSeq(db.orders, IsOpenOrder)

\* tx.order.updateMany(... data: { status: 'CANCELLED' })
CancelOpenOrders(rows) ==
  [i \in 1..Len(rows) |->
     IF IsOpenOrder(rows[i]) THEN [rows[i] EXCEPT !.status = "CANCELLED"] ELSE rows[i]]

\* the updatePosition inputs that release the reserved shares of the cancelled SELLs
ReleaseUpdates(cancellationCalc) ==
  [k \in 1..Len(cancellationCalc.positionUpdates) |->
     PositionUpdate(cancellationCalc.positionUpdates[k].userId,
                    cancellationCalc.positionUpdates[k].outcome,
                    0, -cancellationCalc.positionUpdates[k].releaseReservedShares)]

\* tx.position.update of every settled position, without updatePosition's checks
RECURSIVE ClearPositions(_, _)
ClearPositions(tx, updates) ==
  IF updates = <<>> THEN tx
  ELSE ClearPositions(
         [tx EXCEPT !.positions[Head(updates).userId][Head(updates).outcome] =
                       [shares |-> Head(updates).newShares,
                        reservedShares |-> Head(updates).newReservedShares]],
         Tail(updates))

\* the transaction of a resolution, on the plans computed before it started;
\* market_resolutions has the market id as its primary key
ResolveTx(db, winningOutcome, settlementCalc, cancellationCalc) ==
  LET started == IF db.resolutions # <<>> THEN [db EXCEPT !.ok = FALSE]
                 ELSE [db EXCEPT !.resolutions = Append(@, [winningOutcome |-> winningOutcome,
                                                            resolverUserId |-> "admin"]),
                                 !.marketStatus = "RESOLVED",
                                 !.orders = CancelOpenOrders(@)]
      refunded == applyLedgerBatch(started, cancellationCalc.ledgerEntries)
      released == updatePositions(refunded, ReleaseUpdates(cancellationCalc))
      paid == applyLedgerBatch(released, settlementCalc.ledgerEntries)
  IN IF paid.ok THEN ClearPositions(paid, settlementCalc.positionUpdates) ELSE paid

\* the transaction of a market cancellation, on the plan computed before it started
CancelMarketTx(db, cancellationCalc) ==
  LET started == [db EXCEPT !.marketStatus = "CANCELLED", !.orders = CancelOpenOrders(@)]
      refunded == applyLedgerBatch(started, cancellationCalc.ledgerEntries)
  IN updatePositions(refunded, ReleaseUpdates(cancellationCalc))

\* mutant of resolveMarket: the check of the market status is missing
resolveMarketNoStatusCheck(db, books, winningOutcome) ==
  LET tx == ResolveTx(db, winningOutcome,
                      calculateSettlement(MarketId, winningOutcome, PositionRows(db)),
                      calculateCancellation(OpenOrders(db)))
  IN IF ~tx.ok THEN [db |-> db, books |-> books, status |-> 500]
     ELSE [db |-> tx, books |-> EmptyBooks, status |-> 200]

resolveMarket(db, books, winningOutcome) ==
  LET tx == ResolveTx(db, winningOutcome,
                      calculateSettlement(MarketId, winningOutcome, PositionRows(db)),
                      calculateCancellation(OpenOrders(db)))
  IN IF db.marketStatus # "OPEN" THEN [db |-> db, books |-> books, status |-> 400]
     ELSE IF ~tx.ok THEN [db |-> db, books |-> books, status |-> 500]
     ELSE [db |-> tx, books |-> EmptyBooks, status |-> 200]

cancelMarket(db, books) ==
  LET tx == CancelMarketTx(db, calculateCancellation(OpenOrders(db)))
  IN IF db.marketStatus # "OPEN" THEN [db |-> db, books |-> books, status |-> 400]
     ELSE IF ~tx.ok THEN [db |-> db, books |-> books, status |-> 500]
     ELSE [db |-> tx, books |-> EmptyBooks, status |-> 200]

----------------------------------------------------------------------------
(* The database and the books before the first request: the seeded balances in   *)
(* units (A holds 1000 USDC, B holds 30 USDC), B's 100 YES shares of scenario S1, *)
(* A's 50 NO shares, the market OPEN, no order, trade or ledger row.             *)

InitApi ==
  /\ marketStatus = "OPEN"
  /\ resolutions = <<>>
  /\ balances = [u \in AllUsers |->
                   [available |-> IF u = "u1" THEN 10000000 ELSE IF u = "u2" THEN 300000 ELSE 0,
                    reserved |-> 0]]
  /\ positions = [u \in Users |-> [oc \in Outcomes |->
                   [shares |-> IF u = "u2" /\ oc = "YES" THEN 100
                               ELSE IF u = "u1" /\ oc = "NO" THEN 50 ELSE 0,
                    reservedShares |-> 0]]]
  /\ orders = <<>>
  /\ trades = <<>>
  /\ ledger = <<>>
  /\ orderBooks = EmptyBooks
  /\ lastEvent = NoEvent
  /\ inflight = <<>>
  /\ begun = 0

----------------------------------------------------------------------------
(* calculateTradeSettlement called on its own, as its unit tests call it *)

NoResult == [ledgerEntries |-> <<>>, positionUpdates |-> <<>>, called |-> FALSE]

NoTrade == [makerUserId |-> "u1", takerUserId |-> "u1", makerSide |-> "SELL",
            outcome |-> "YES", price |-> 0, quantity |-> 0, takerFee |-> 0]

\* the trades handed in: every fee the engine computes, and no fee
TradeInputs ==
  { [makerUserId |-> mu, takerUserId |-> tu, makerSide |-> ms, outcome |-> oc,
     price |-> p, quantity |-> q, takerFee |-> f] :
      mu \in Users, tu \in Users, ms \in Sides, oc \in Outcomes, p \in Prices, q \in Qtys,
      f \in {0, 1} }

InitSettle ==
  /\ \E t \in TradeInputs :
       settleInput = [t EXCEPT !.takerFee = @ * calculateTakerFee(t.quantity * t.price)]
  /\ settleResult = NoResult
  /\ buyOrders = <<>> /\ sellOrders = <<>> /\ engineLast = NoCall /\ engineCalls = 0
  /\ InitApi
  /\ rowLocking = FALSE

SettleTrade ==
  /\ ~settleResult.called
  /\ settleResult' = [ledgerEntries |-> calculateTradeSettlement(settleInput).ledgerEntries,
                      positionUpdates |-> calculateTradeSettlement(settleInput).positionUpdates,
                      called |-> TRUE]
  /\ UNCHANGED <<settleInput, engineVars, apiVars, concVars>>

NextSettle == SettleTrade

SpecSettle == InitSettle /\ [][NextSettle]_vars

----------------------------------------------------------------------------
(* The pure calculators and the ledger application called directly, as their unit *)
(* tests call them *)

MaxPositions == 3

\* Position rows handed to calculateSettlement: of the market and of another market,
\* without shares and with shares of which some are reserved
SettlementRows ==
  { [userId |-> u, marketId |-> m, outcome |-> oc, shares |-> sh[1], reservedShares |-> sh[2]] :
      u \in Users, m \in {MarketId, "market-2"}, oc \in Outcomes,
      sh \in {<<0, 0>>, <<100, 40>>} }

SettlementInputs ==
  { [kind |-> "settlement", winningOutcome |-> w, positions |-> ps] :
      w \in Outcomes, ps \in UNION { [1..n -> SettlementRows] : n \in 0..MaxPositions } }

MaxBatch == 2

\* ledger entries handed to applyLedger on the seeded balances: B holds 30 available
LedgerInputs ==
  { [kind |-> "ledger", entries |-> es] :
      es \in UNION { [1..n -> { LedgerEntry(u, dA, dR, "ADMIN_ADJUSTMENT") :
                                 u \in {"u2", SYSTEM_USER_ID},
                                 dA \in {-400000, -100000, 100000},
                                 dR \in {-100000, 0, 100000} }] : n \in 1..MaxBatch } }

\* what a position operation gives: a thrown PositionInvariantError or the new position
PositionError == [threw |-> TRUE]

PositionResult(position) == [threw |-> FALSE, position |-> position]

\* validatePositionState does not throw
validatePositionState(position) ==
  /\ ~(position.shares < 0)
  /\ ~(position.reservedShares < 0)
  /\ ~(position.reservedShares > position.shares)

\* mutant of reserveShares: the new position is returned without being validated
reserveSharesUnvalidated(position, amount) ==
  PositionResult([position EXCEPT !.reservedShares = position.reservedShares + amount])

reserveShares(position, amount) ==
  LET newPosition == [position EXCEPT !.reservedShares = position.reservedShares + amount]
  IN IF validatePositionState(newPosition) THEN PositionResult(newPosition)
     ELSE PositionError

releaseReservedShares(position, amount) ==
  LET newPosition == [position EXCEPT !.reservedShares = position.reservedShares - amount]
  IN IF validatePositionState(newPosition) THEN PositionResult(newPosition)
     ELSE PositionError

consumeReservedShares(position, amount) ==
  LET newPosition == [position EXCEPT !.shares = position.shares - amount,
                                      !.reservedShares = position.reservedShares - amount]
  IN IF validatePositionState(newPosition) THEN PositionResult(newPosition)
     ELSE PositionError

\* the positions and amounts handed to the share operations; a position is one that
\* validatePositionState accepts
PositionInputs ==
  { [kind |-> "position", op |-> op, position |-> p, amount |-> q] :
      op \in {"reserveShares", "releaseReservedShares", "consumeReservedShares",
              "reserveThenRelease"},
      p \in { pp \in [shares : {0, 70, 100}, reservedShares : {0, 30, 70, 100},
                       avgPrice : {5000}] : validatePositionState(pp) },
      q \in {-30, 0, 30, 70, 150} }

InitPlan ==
  /\ settleInput \in SettlementInputs \cup LedgerInputs \cup PositionInputs
  /\ settleResult = NoResult
  /\ buyOrders = <<>> /\ sellOrders = <<>> /\ engineLast = NoCall /\ engineCalls = 0
  /\ InitApi
  /\ rowLocking = FALSE

CalcSettlement ==
  /\ settleInput.kind = "settlement"
  /\ ~settleResult.called
  /\ \E r \in {calculateSettlement(MarketId, settleInput.winningOutcome,
                                   settleInput.positions)} :
       settleResult' = [ledgerEntries |-> r.ledgerEntries,
                        positionUpdates |-> r.positionUpdates, called |-> TRUE]
  /\ UNCHANGED <<settleInput, engineVars, apiVars, concVars>>

\* prisma.$transaction(tx => applyLedgerBatch(tx, entries)): the rows are committed
\* if no applyLedger threw, and none of them otherwise
ApplyBatch ==
  /\ settleInput.kind = "ledger"
  /\ ~settleResult.called
  /\ \E tx \in {applyLedgerBatch(Db, settleInput.entries)} :
       /\ balances' = IF tx.ok THEN tx.balances ELSE balances
       /\ ledger' = IF tx.ok THEN tx.ledger ELSE ledger
       /\ settleResult' = [called |-> TRUE, ok |-> tx.ok,
                           preBalances |-> balances, preLedger |-> ledger]
  /\ UNCHANGED <<settleInput, marketStatus, resolutions, positions, orders, trades,
                 orderBooks, lastEvent, engineVars, concVars>>

\* a call of a share operation on the given position
ShareOperation(op, result) ==
  /\ settleInput.kind = "position"
  /\ settleInput.op = op
  /\ ~settleResult.called
  /\ settleResult' = [called |-> TRUE, result |-> result]
  /\ UNCHANGED <<settleInput, engineVars, apiVars, concVars>>

ReserveShares ==
  ShareOperation("reserveShares", reserveShares(settleInput.position, settleInput.amount))

ReleaseReservedShares ==
  ShareOperation("releaseReservedShares",
                 releaseReservedShares(settleInput.position, settleInput.amount))

ConsumeReservedShares ==
  ShareOperation("consumeReservedShares",
                 consumeReservedShares(settleInput.position, settleInput.amount))

\* releaseReservedShares(reserveShares(position, amount), amount)
ReserveThenRelease ==
  ShareOperation("reserveThenRelease",
                 LET reserved == reserveShares(settleInput.position, settleInput.amount)
                 IN IF reserved.threw THEN PositionError
                    ELSE releaseReservedShares(reserved.position, settleInput.amount))

NextPlan ==
  \/ CalcSettlement
  \/ ApplyBatch
  \/ ReserveShares
  \/ ReleaseReservedShares
  \/ ConsumeReservedShares
  \/ ReserveThenRelease

SpecPlan == InitPlan /\ [][NextPlan]_vars

----------------------------------------------------------------------------
(* The engine driven directly, as its unit tests drive it *)

\* the callers alternate, so that both self-trades and trades between users occur
EngineUser(id) == IF id % 2 = 1 THEN "u1" ELSE "u2"

InitEngine ==
  /\ buyOrders = <<>>
  /\ sellOrders = <<>>
  /\ engineLast = NoCall
  /\ engineCalls = 0
  /\ settleInput = NoTrade
  /\ settleResult = NoResult
  /\ InitApi
  /\ rowLocking = FALSE

EngineAddOrder ==
  /\ engineCalls < MaxEngineOrders
  /\ \E side \in Sides, price \in Prices, qty \in Qtys, t \in Times :
       LET order == EngineOrder(engineCalls + 1, EngineUser(engineCalls + 1), side, price, qty, t)
           r == addOrder(buyOrders, sellOrders, order)
       IN /\ buyOrders' = r.buys
          /\ sellOrders' = r.sells
          /\ engineLast' = [op |-> "addOrder", order |-> order,
                            preBuys |-> buyOrders, preSells |-> sellOrders,
                            matches |-> r.matches, remainingOrder |-> r.remainingOrder]
          /\ engineCalls' = engineCalls + 1
          /\ UNCHANGED <<settleVars, apiVars, concVars>>

EngineCancelOrder ==
  \E orderId \in 1..(engineCalls + 1) :
    LET r == cancelOrder(buyOrders, sellOrders, orderId)
    IN /\ buyOrders' = r.buys
       /\ sellOrders' = r.sells
       /\ engineLast' = [op |-> "cancelOrder", order |-> [id |-> orderId],
                         preBuys |-> buyOrders, preSells |-> sellOrders,
                         matches |-> <<>>, remainingOrder |-> r.removed]
       /\ engineCalls' = engineCalls
       /\ UNCHANGED <<settleVars, apiVars, concVars>>

EngineClearAllOrders ==
  /\ buyOrders' = <<>>
  /\ sellOrders' = <<>>
  /\ engineLast' = [op |-> "clearAllOrders", order |-> NoOrder,
                    preBuys |-> buyOrders, preSells |-> sellOrders,
                    matches |-> <<>>, remainingOrder |-> NoOrder]
  /\ engineCalls' = engineCalls
  /\ UNCHANGED <<settleVars, apiVars, concVars>>

NextEngine == EngineAddOrder \/ EngineCancelOrder \/ EngineClearAllOrders

SpecEngine == InitEngine /\ [][NextEngine]_vars

----------------------------------------------------------------------------
(* The aggregated snapshot of one engine *)

\* mutant of aggregateLevels: every resting order is a level of its own
aggregateLevelsNoMerge(bookOrders) ==
  [i \in 1..Len(bookOrders) |->
     [price |-> bookOrders[i].price, quantity |-> bookOrders[i].remaining, orderCount |-> 1]]

\* the Map of levels after the orders from the given one on; a Map iterates in the
\* order of insertion, and price.toString() is the same for equal prices only
RECURSIVE aggregateLevelsFrom(_, _)
aggregateLevelsFrom(levels, bookOrders) ==
  IF bookOrders = <<>> THEN levels
  ELSE LET order == Head(bookOrders)
           existing == { i \in 1..Len(levels) : levels[i].price = order.price }
       IN aggregateLevelsFrom(
            IF existing # {}
            THEN [levels EXCEPT ![CHOOSE i \in existing : TRUE] =
                    [price |-> @.price, quantity |-> @.quantity + order.remaining,
                     orderCount |-> @.orderCount + 1]]
            ELSE Append(levels, [price |-> order.price, quantity |-> order.remaining,
                                 orderCount |-> 1]),
            Tail(bookOrders))

aggregateLevels(bookOrders) == aggregateLevelsFrom(<<>>, bookOrders)

getOrderBook(buys, sells) ==
  [bids |-> aggregateLevels(buys), asks |-> aggregateLevels(sells)]

EngineGetOrderBook ==
  /\ engineLast.op # "getOrderBook"
  /\ engineLast' = [op |-> "getOrderBook", order |-> NoOrder,
                    preBuys |-> buyOrders, preSells |-> sellOrders,
                    matches |-> <<>>, remainingOrder |-> NoOrder,
                    snapshot |-> getOrderBook(buyOrders, sellOrders)]
  /\ UNCHANGED <<buyOrders, sellOrders, engineCalls, settleVars, apiVars, concVars>>

\* mutant of getBestBid: the price of the last resting BUY order
getBestBidLast(buys) ==
  IF Len(buys) > 0 THEN <<buys[Len(buys)].price>> ELSE <<>>

\* a price or null: <<p>> or <<>>
getBestBid(buys) ==
  IF Len(buys) > 0 THEN <<buys[1].price>> ELSE <<>>

getBestAsk(sells) ==
  IF Len(sells) > 0 THEN <<sells[1].price>> ELSE <<>>

\* a Decimal is an object, so bid && ask is true whenever neither is null
getMidpoint(buys, sells) ==
  LET bid == getBestBid(buys)
      ask == getBestAsk(sells)
  IN IF bid # <<>> /\ ask # <<>> THEN <<(bid[1] + ask[1]) \div 2>>
     ELSE IF bid # <<>> THEN bid
     ELSE ask

\* a query of the book: the call and what it returned
Query(op, result) ==
  /\ engineLast' = [op |-> op, order |-> NoOrder,
                    preBuys |-> buyOrders, preSells |-> sellOrders,
                    matches |-> <<>>, remainingOrder |-> NoOrder, result |-> result]
  /\ UNCHANGED <<buyOrders, sellOrders, engineCalls, settleVars, apiVars, concVars>>

EngineGetBestBid == Query("getBestBid", getBestBid(buyOrders))

EngineGetBestAsk == Query("getBestAsk", getBestAsk(sellOrders))

EngineGetMidpoint == Query("getMidpoint", getMidpoint(buyOrders, sellOrders))

NextBook ==
  \/ EngineAddOrder
  \/ EngineCancelOrder
  \/ EngineGetOrderBook
  \/ EngineGetBestBid
  \/ EngineGetBestAsk
  \/ EngineGetMidpoint

SpecBook == InitEngine /\ [][NextBook]_vars

----------------------------------------------------------------------------
(* The API: requests handled one after the other *)

\* the rows of db become the database
Persist(db) ==
  /\ marketStatus' = db.marketStatus
  /\ resolutions' = db.resolutions
  /\ balances' = db.balances
  /\ positions' = db.positions
  /\ orders' = db.orders
  /\ trades' = db.trades
  /\ ledger' = db.ledger

\* the record of a request; of a request that was refused before any write only the
\* route and the reply are kept
Event(op, caller, orderId, status, matches, settled, commits) ==
  [op |-> op,
   caller |-> IF status # 200 /\ matches = <<>> THEN "none" ELSE caller,
   orderId |-> IF status # 200 /\ matches = <<>> THEN 0 ELSE orderId,
   status |-> status, matches |-> matches, settled |-> settled, commits |-> commits,
   preBalances |-> balances, prePositions |-> positions, preOrders |-> orders,
   pre |-> [marketStatus |-> marketStatus, resolutions |-> resolutions,
            trades |-> trades, ledger |-> ledger, orderBooks |-> orderBooks]]

\* the request bodies of POST /:id/orders: every order on YES, one resting bid on NO,
\* a body with quantity 0 and a body with price 1.00
OrderInputs ==
  { [outcome |-> "YES", side |-> side, price |-> price, quantity |-> quantity] :
      side \in Sides, price \in Prices, quantity \in OrderQtys }
  \cup { [outcome |-> "NO", side |-> "BUY", price |-> 6000, quantity |-> 50],
         [outcome |-> "YES", side |-> "BUY", price |-> 6000, quantity |-> 0],
         [outcome |-> "YES", side |-> "SELL", price |-> 10000, quantity |-> 50] }

Init ==
  /\ InitApi
  /\ rowLocking = FALSE
  /\ buyOrders = <<>> /\ sellOrders = <<>> /\ engineLast = NoCall /\ engineCalls = 0
  /\ settleInput = NoTrade /\ settleResult = NoResult

PlaceOrder ==
  /\ Len(orders) < MaxOrders
  /\ \E userId \in Users, o \in OrderInputs :
       \E r \in {placeOrder(Db, orderBooks, userId, o.outcome, o.side, o.price, o.quantity)} :
          /\ Persist(r.db)
          /\ orderBooks' = r.books
          /\ lastEvent' = Event("placeOrder", userId, r.orderId, r.status,
                                r.matches, r.settled, r.commits)
                             @@ [dataStatus |-> r.dataStatus]
  /\ UNCHANGED <<engineVars, settleVars, concVars>>

CancelOrder ==
  /\ \E caller \in Callers, id \in 1..MaxOrders :
       \E r \in {cancelOrderRequest(Db, caller, id)} :
          /\ Persist(r.db)
          /\ lastEvent' = Event("cancelOrder", caller, id, r.status, <<>>, 0, <<>>)
  /\ UNCHANGED <<orderBooks, engineVars, settleVars, concVars>>

ResolveMarket ==
  /\ \E winningOutcome \in Outcomes :
       \E r \in {resolveMarket(Db, orderBooks, winningOutcome)} :
          /\ Persist(r.db)
          /\ orderBooks' = r.books
          /\ lastEvent' = Event("resolveMarket", "admin", 0, r.status, <<>>, 0, <<>>)
  /\ UNCHANGED <<engineVars, settleVars, concVars>>

CancelMarket ==
  /\ \E r \in {cancelMarket(Db, orderBooks)} :
        /\ Persist(r.db)
        /\ orderBooks' = r.books
        /\ lastEvent' = Event("cancelMarket", "admin", 0, r.status, <<>>, 0, <<>>)
  /\ UNCHANGED <<engineVars, settleVars, concVars>>

Next == PlaceOrder \/ CancelOrder \/ ResolveMarket \/ CancelMarket

Spec == Init /\ [][Next]_vars

----------------------------------------------------------------------------
(* The API across a restart of the process. The order books are a module-level Map *)
(* created empty when the module is loaded; neither the module nor the server start *)
(* reads the Order table.                                                           *)

\* the process is stopped and started again: the database stays, the Map is new
Restart ==
  /\ lastEvent.op # "restart"
  /\ orderBooks' = EmptyBooks
  /\ lastEvent' = Event("restart", "none", 0, 0, <<>>, 0, <<>>)
  /\ UNCHANGED <<marketStatus, resolutions, balances, positions, orders, trades, ledger,
                 engineVars, settleVars, concVars>>

NextRestart == PlaceOrder \/ CancelOrder \/ Restart

SpecRestart == Init /\ [][NextRestart]_vars

----------------------------------------------------------------------------
(* Placements only, each of them completed with success *)

\* a POST /:id/orders request that was answered with success
PlaceOrderCompleted == PlaceOrder /\ lastEvent'.status = 200

NextPlaced == PlaceOrderCompleted

SpecPlaced == Init /\ [][NextPlaced]_vars

----------------------------------------------------------------------------
(* The API with its handlers interleaved. A handler is an async function: it runs   *)
(* until its next await and other requests are served while it waits; nothing in    *)
(* the routes takes a lock. A step below is one awaited query or transaction        *)
(* together with the synchronous code that follows it up to the next await; a       *)
(* transaction is taken as a whole.                                                 *)

MaxRequests == 4
MaxInflight == 2

\* the request bodies of POST /:id/orders while handlers interleave
ConcOrderInputs ==
  { [outcome |-> "YES", side |-> side, price |-> price, quantity |-> 50] :
      side \in Sides, price \in Prices }

\* the handler of request i waits at its next await
Await(i, req) == inflight' = [inflight EXCEPT ![i] = req]

\* the handler of request i returns or throws: the reply is sent
Reply(i) == inflight' = RemoveAt(inflight, i)

\* the transaction of an order cancel, on the order row read before it started
CancelOrderTx(db, order) ==
  LET cancelled == [db EXCEPT !.orders[order.id].status = "CANCELLED"]
  IN IF order.side = "BUY"
     THEN applyLedger(cancelled,
            calculateOrderRelease(order.userId, order.price, order.remaining))
     ELSE updatePosition(cancelled,
            PositionUpdate(order.userId, order.outcome, 0, -order.remaining))

\* POST /:id/orders up to the first transaction: the body is parsed and the market read
PlaceBegin ==
  /\ begun < MaxRequests /\ Len(inflight) < MaxInflight
  /\ begun' = begun + 1
  /\ \E userId \in Users, o \in ConcOrderInputs :
       inflight' = IF ~CreateOrderSchemaOk(o.price, o.quantity) \/ marketStatus # "OPEN"
                   THEN inflight
                   ELSE Append(inflight, [op |-> "placeOrder", pc |-> "reserve",
                                          userId |-> userId, body |-> o])
  /\ UNCHANGED <<apiVars, rowLocking, engineVars, settleVars>>

\* the first transaction, then engine.addOrder on the book as it is at that moment
PlaceReserve ==
  \E i \in 1..Len(inflight) :
    LET req == inflight[i]
        o == req.body
        tx == ReserveForOrder(Db, req.userId, o.outcome, o.side, o.price, o.quantity)
        id == Len(tx.orders)
        engine == orderBooks[o.outcome]
        matchResult == addOrder(engine.buyOrders, engine.sellOrders,
                                EngineOrder(id, req.userId, o.side, o.price, o.quantity, id))
    IN /\ req.op = "placeOrder" /\ req.pc = "reserve"
       /\ IF ~tx.ok
          THEN /\ Reply(i)
               /\ UNCHANGED apiVars
          ELSE /\ Persist(tx)
               /\ orderBooks' = [orderBooks EXCEPT ![o.outcome] =
                                   [buyOrders |-> matchResult.buys,
                                    sellOrders |-> matchResult.sells]]
               /\ IF matchResult.matches = <<>>
                  THEN Reply(i)
                  ELSE Await(i, [op |-> "placeOrder", pc |-> "settle",
                                 userId |-> req.userId, body |-> o, orderId |-> id,
                                 matches |-> matchResult.matches, k |-> 1,
                                 takerFilled |-> matchResult.remainingOrder = NoOrder])
               /\ UNCHANGED lastEvent
       /\ UNCHANGED <<begun, rowLocking, engineVars, settleVars>>

\* the transaction of the next match of the placement
PlaceSettle ==
  \E i \in 1..Len(inflight) :
    LET req == inflight[i]
        tx == SettleMatch(Db, req.matches[req.k], req.body.outcome, req.takerFilled)
    IN /\ req.op = "placeOrder" /\ req.pc = "settle"
       /\ IF ~tx.ok
          THEN /\ Reply(i)
               /\ Persist(Db)
          ELSE /\ Persist(tx)
               /\ IF req.k < Len(req.matches) THEN Await(i, [req EXCEPT !.k = @ + 1])
                  ELSE IF req.takerFilled THEN Await(i, [req EXCEPT !.pc = "finish"])
                  ELSE Reply(i)
       /\ UNCHANGED <<orderBooks, lastEvent, begun, rowLocking, engineVars, settleVars>>

\* the update of the taker's row once it is fully filled
PlaceFinish ==
  \E i \in 1..Len(inflight) :
    LET req == inflight[i]
    IN /\ req.op = "placeOrder" /\ req.pc = "finish"
       /\ Persist([Db EXCEPT !.orders[req.orderId].status = "FILLED",
                             !.orders[req.orderId].remaining = 0])
       /\ Reply(i)
       /\ UNCHANGED <<orderBooks, lastEvent, begun, rowLocking, engineVars, settleVars>>

\* POST /orders/:id/cancel up to its transaction: the order is read and checked
CancelOrderBegin ==
  /\ begun < MaxRequests /\ Len(inflight) < MaxInflight
  /\ begun' = begun + 1
  /\ \E caller \in Callers, id \in 1..MaxOrders :
       inflight' = IF id \notin 1..Len(orders) THEN inflight
                   ELSE IF orders[id].userId # caller /\ caller # "admin" THEN inflight
                   ELSE IF ~IsOpenOrder(orders[id]) THEN inflight
                   ELSE Append(inflight, [op |-> "cancelOrder", pc |-> "tx",
                                          order |-> orders[id]])
  /\ UNCHANGED <<apiVars, rowLocking, engineVars, settleVars>>

CancelOrderCommit ==
  \E i \in 1..Len(inflight) :
    LET req == inflight[i]
        tx == CancelOrderTx(Db, req.order)
    IN /\ req.op = "cancelOrder" /\ req.pc = "tx"
       /\ Persist(IF tx.ok THEN tx ELSE Db)
       /\ Reply(i)
       /\ UNCHANGED <<orderBooks, lastEvent, begun, rowLocking, engineVars, settleVars>>

\* POST /:id/resolve: the market is read and checked
ResolveBegin ==
  /\ begun < MaxRequests /\ Len(inflight) < MaxInflight
  /\ begun' = begun + 1
  /\ \E winningOutcome \in Outcomes :
       inflight' = IF marketStatus # "OPEN" THEN inflight
                   ELSE Append(inflight, [op |-> "resolveMarket", pc |-> "positions",
                                          winningOutcome |-> winningOutcome])
  /\ UNCHANGED <<apiVars, rowLocking, engineVars, settleVars>>

\* prisma.position.findMany and calculateSettlement on its rows
ResolvePositions ==
  \E i \in 1..Len(inflight) :
    LET req == inflight[i]
    IN /\ req.op = "resolveMarket" /\ req.pc = "positions"
       /\ Await(i, [op |-> "resolveMarket", pc |-> "openOrders",
                    winningOutcome |-> req.winningOutcome,
                    settlementCalc |->
                      calculateSettlement(MarketId, req.winningOutcome, PositionRows(Db))])
       /\ UNCHANGED <<apiVars, begun, rowLocking, engineVars, settleVars>>

\* prisma.order.findMany and calculateCancellation on its rows
ResolveOpenOrders ==
  \E i \in 1..Len(inflight) :
    LET req == inflight[i]
    IN /\ req.op = "resolveMarket" /\ req.pc = "openOrders"
       /\ Await(i, [op |-> "resolveMarket", pc |-> "tx",
                    winningOutcome |-> req.winningOutcome,
                    settlementCalc |-> req.settlementCalc,
                    cancellationCalc |-> calculateCancellation(OpenOrders(Db))])
       /\ UNCHANGED <<apiVars, begun, rowLocking, engineVars, settleVars>>

\* the transaction of the resolution, then orderBooks.delete
ResolveCommit ==
  \E i \in 1..Len(inflight) :
    LET req == inflight[i]
        tx == ResolveTx(Db, req.winningOutcome, req.settlementCalc, req.cancellationCalc)
    IN /\ req.op = "resolveMarket" /\ req.pc = "tx"
       /\ Persist(IF tx.ok THEN tx ELSE Db)
       /\ orderBooks' = IF tx.ok THEN EmptyBooks ELSE orderBooks
       /\ Reply(i)
       /\ UNCHANGED <<lastEvent, begun, rowLocking, engineVars, settleVars>>

\* POST /:id/cancel of a market: the market is read and checked
CancelMarketBegin ==
  /\ begun < MaxRequests /\ Len(inflight) < MaxInflight
  /\ begun' = begun + 1
  /\ inflight' = IF marketStatus # "OPEN" THEN inflight
                 ELSE Append(inflight, [op |-> "cancelMarket", pc |-> "openOrders"])
  /\ UNCHANGED <<apiVars, rowLocking, engineVars, settleVars>>

CancelMarketOpenOrders ==
  \E i \in 1..Len(inflight) :
    LET req == inflight[i]
    IN /\ req.op = "cancelMarket" /\ req.pc = "openOrders"
       /\ Await(i, [op |-> "cancelMarket", pc |-> "tx",
                    cancellationCalc |-> calculateCancellation(OpenOrders(Db))])
       /\ UNCHANGED <<apiVars, begun, rowLocking, engineVars, settleVars>>

\* the transaction of the market cancellation, then orderBooks.delete
CancelMarketCommit ==
  \E i \in 1..Len(inflight) :
    LET req == inflight[i]
        tx == CancelMarketTx(Db, req.cancellationCalc)
    IN /\ req.op = "cancelMarket" /\ req.pc = "tx"
       /\ Persist(IF tx.ok THEN tx ELSE Db)
       /\ orderBooks' = IF tx.ok THEN EmptyBooks ELSE orderBooks
       /\ Reply(i)
       /\ UNCHANGED <<lastEvent, begun, rowLocking, engineVars, settleVars>>

NextConc ==
  \/ PlaceBegin \/ PlaceReserve \/ PlaceSettle \/ PlaceFinish
  \/ CancelOrderBegin \/ CancelOrderCommit
  \/ ResolveBegin \/ ResolvePositions \/ ResolveOpenOrders \/ ResolveCommit
  \/ CancelMarketBegin \/ CancelMarketOpenOrders \/ CancelMarketCommit

SpecConc == Init /\ [][NextConc]_vars

\* placements and order cancels alone, interleaved
NextRace ==
  \/ PlaceBegin \/ PlaceReserve \/ PlaceSettle \/ PlaceFinish
  \/ CancelOrderBegin \/ CancelOrderCommit

SpecRace == Init /\ [][NextRace]_vars

----------------------------------------------------------------------------
(* Concurrent placements with the first transaction taken statement by statement.   *)
(* The transaction reads the balance (findUnique), checks the funds, creates the    *)
(* order, and applyLedger reads the balance again (upsert with an empty update),    *)
(* checks the new values and writes them as absolute values. No statement asks for  *)
(* a lock and no isolation level is set; whether the upsert locks the row it        *)
(* returns depends on the database and the client, so both are explored.            *)

\* the request bodies: bids only, so that every write of a balance is a reservation
TxOrderInputs ==
  { [outcome |-> "YES", side |-> "BUY", price |-> price, quantity |-> 50] :
      price \in Prices }

\* the rest of the handler once the first transaction is committed
MatchAndSettle(tx, books, userId, o) ==
  LET id == Len(tx.orders)
      engine == books[o.outcome]
      matchResult == addOrder(engine.buyOrders, engine.sellOrders,
                              EngineOrder(id, userId, o.side, o.price, o.quantity, id))
      takerFilled == matchResult.remainingOrder = NoOrder
      processed == ProcessMatches(tx, matchResult.matches, 1, o.outcome, takerFilled)
  IN [db |-> IF processed.ok /\ takerFilled
             THEN [processed.db EXCEPT !.orders[id].status = "FILLED",
                                       !.orders[id].remaining = 0]
             ELSE processed.db,
      books |-> [books EXCEPT ![o.outcome] = [buyOrders |-> matchResult.buys,
                                              sellOrders |-> matchResult.sells]]]

\* the first transaction as it runs on the balance row that applyLedger's upsert returned
ReserveOnSnapshot(db, userId, o, snapshot) ==
  LET order == OrderRow(Len(db.orders) + 1, userId, o.outcome, o.side, o.price, o.quantity)
      created == [db EXCEPT !.orders = Append(@, order), !.balances[userId] = snapshot]
  IN applyLedger(created, calculateBuyReserve(userId, o.price, o.quantity))

InitTx ==
  /\ InitApi
  /\ rowLocking \in BOOLEAN
  /\ buyOrders = <<>> /\ sellOrders = <<>> /\ engineLast = NoCall /\ engineCalls = 0
  /\ settleInput = NoTrade /\ settleResult = NoResult

\* the market read, tx.balance.findUnique and the funds check
TxBegin ==
  /\ begun < MaxRequests /\ Len(inflight) < MaxInflight
  /\ begun' = begun + 1
  /\ \E userId \in Users, o \in TxOrderInputs :
       inflight' = IF marketStatus # "OPEN" THEN inflight
                   ELSE IF balances[userId].available < o.price * o.quantity THEN inflight
                   ELSE Append(inflight, [op |-> "placeOrder", pc |-> "upsert",
                                          userId |-> userId, body |-> o])
  /\ UNCHANGED <<apiVars, rowLocking, engineVars, settleVars>>

\* tx.order.create, then the upsert of applyLedger returns the balance row; where it
\* locks the row it waits for the transaction that holds it
TxUpsert ==
  \E i \in 1..Len(inflight) :
    LET req == inflight[i]
    IN /\ req.op = "placeOrder" /\ req.pc = "upsert"
       /\ rowLocking =>
            \A j \in 1..Len(inflight) :
              ~(inflight[j].pc = "write" /\ inflight[j].userId = req.userId)
       /\ Await(i, [op |-> "placeOrder", pc |-> "write", userId |-> req.userId,
                    body |-> req.body, balance |-> balances[req.userId]])
       /\ UNCHANGED <<apiVars, begun, rowLocking, engineVars, settleVars>>

\* the checks of applyLedger, the ledger entry, the balance update and the commit,
\* then the rest of the handler
TxCommit ==
  \E i \in 1..Len(inflight) :
    LET req == inflight[i]
        tx == ReserveOnSnapshot(Db, req.userId, req.body, req.balance)
    IN /\ req.op = "placeOrder" /\ req.pc = "write"
       /\ IF ~tx.ok
          THEN UNCHANGED <<marketStatus, resolutions, balances, positions, orders, trades,
                           ledger, orderBooks>>
          ELSE \E r \in {MatchAndSettle(tx, orderBooks, req.userId, req.body)} :
                 /\ Persist(r.db)
                 /\ orderBooks' = r.books
       /\ Reply(i)
       /\ UNCHANGED <<lastEvent, begun, rowLocking, engineVars, settleVars>>

NextTx == TxBegin \/ TxUpsert \/ TxCommit

SpecTx == InitTx /\ [][NextTx]_vars

----------------------------------------------------------------------------
(* Helpers to read the last engine call *)

IsAdd == engineLast.op = "addOrder"

Taker == engineLast.order

\* the side the taker matched against and the side it rests on, before and after the call
PreOpp == IF Taker.side = "BUY" THEN engineLast.preSells ELSE engineLast.preBuys
PostOpp == IF Taker.side = "BUY" THEN sellOrders ELSE buyOrders
PreOwn == IF Taker.side = "BUY" THEN engineLast.preBuys ELSE engineLast.preSells
PostOwn == IF Taker.side = "BUY" THEN buyOrders ELSE sellOrders

Resting(book, id) == \E i \in 1..Len(book) : book[i].id = id
OrderById(book, id) == book[CHOOSE i \in 1..Len(book) : book[i].id = id]

\* the summed quantity of the matches among the first n whose maker satisfies Keep
SumQtyIf(matches, n, Keep(_)) ==
  LET RECURSIVE S(_)
      S(k) == IF k = 0 THEN 0
              ELSE S(k - 1) + (IF Keep(matches[k]) THEN matches[k].quantity ELSE 0)
  IN S(n)
SumQty(matches, n) == SumQtyIf(matches, n, LAMBDA m : TRUE)

\* price-time priority of resting orders of the side a taker of side takerSide hits
BetterPrice(takerSide, a, b) ==
  IF takerSide = "BUY" THEN a.price < b.price ELSE a.price > b.price
StrictlyBefore(takerSide, a, b) ==
  BetterPrice(takerSide, a, b) \/ (a.price = b.price /\ a.createdAt < b.createdAt)

BidsSorted(book) ==
  \A i, j \in 1..Len(book) : i < j =>
    \/ book[i].price > book[j].price
    \/ (book[i].price = book[j].price /\ book[i].createdAt <= book[j].createdAt)

AsksSorted(book) ==
  \A i, j \in 1..Len(book) : i < j =>
    \/ book[i].price < book[j].price
    \/ (book[i].price = book[j].price /\ book[i].createdAt <= book[j].createdAt)

----------------------------------------------------------------------------
\* C3: after any sequence of addOrder, cancelOrder and clearAllOrders calls the bids
\* are ordered by price descending then createdAt ascending, the asks by price
\* ascending then createdAt ascending, and an order inserted with the price and the
\* createdAt of a resting order is placed after that resting order.
C3_BookSortedStable ==
  /\ BidsSorted(buyOrders)
  /\ AsksSorted(sellOrders)
  /\ (IsAdd /\ engineLast.remainingOrder # NoOrder) =>
       \A i, j \in 1..Len(PostOwn) :
         (/\ PostOwn[j].id = Taker.id
          /\ PostOwn[i].id # Taker.id
          /\ PostOwn[i].price = Taker.price
          /\ PostOwn[i].createdAt = Taker.createdAt) => i < j

\* a residual was inserted behind a resting order of the same price and createdAt and
\* in front of a resting order of the same price and a later createdAt
C3_Witness ==
  /\ IsAdd /\ engineLast.remainingOrder # NoOrder
  /\ \E i, j, k \in 1..Len(PostOwn) :
       /\ i < j /\ j < k
       /\ PostOwn[j].id = Taker.id
       /\ PostOwn[i].price = Taker.price /\ PostOwn[i].createdAt = Taker.createdAt
       /\ PostOwn[k].price = Taker.price /\ PostOwn[k].createdAt > Taker.createdAt

\* C4: every match returned by addOrder has the price of the resting (maker) order it
\* consumed, for BUY and for SELL takers.
C4_MakerPrice ==
  IsAdd =>
    \A k \in 1..Len(engineLast.matches) :
      LET m == engineLast.matches[k]
      IN /\ Resting(PreOpp, m.makerOrderId)
         /\ m.price = OrderById(PreOpp, m.makerOrderId).price
         /\ m.takerOrderId = Taker.id

\* a taker was matched at a maker price different from its own limit price
C4_Witness ==
  /\ IsAdd
  /\ \E k \in 1..Len(engineLast.matches) :
       /\ engineLast.matches[k].price # Taker.price
       /\ engineLast.matches[k].price = OrderById(PreOpp, engineLast.matches[k].makerOrderId).price

Crosses(taker, maker) ==
  IF taker.side = "BUY" THEN maker.price <= taker.price ELSE maker.price >= taker.price

\* C5: addOrder matches the taker against the head of the opposite side exactly while
\* that head is priced at or better than the taker's limit and taker quantity remains:
\* every maker matched crosses, matching stops only when the taker is exhausted or the
\* opposite head no longer crosses, a crossable head (also one priced exactly at the
\* limit) gives at least one match, and a taker without a match rests on its own side
\* at its limit price with its whole quantity.
C5_CrossingRule ==
  IsAdd =>
    /\ \A k \in 1..Len(engineLast.matches) :
         Crosses(Taker, OrderById(PreOpp, engineLast.matches[k].makerOrderId))
    /\ \/ engineLast.remainingOrder = NoOrder
       \/ Len(PostOpp) = 0
       \/ ~Crosses(Taker, PostOpp[1])
    /\ (Len(PreOpp) > 0 /\ Crosses(Taker, PreOpp[1])) => Len(engineLast.matches) >= 1
    /\ Len(engineLast.matches) = 0 =>
         /\ Len(PreOpp) = 0 \/ ~Crosses(Taker, PreOpp[1])
         /\ PostOpp = PreOpp
         /\ Resting(PostOwn, Taker.id)
         /\ OrderById(PostOwn, Taker.id).price = Taker.price
         /\ OrderById(PostOwn, Taker.id).remaining = Taker.quantity

\* a taker priced exactly at the best opposite price was matched
C5_Witness ==
  /\ IsAdd
  /\ Len(engineLast.matches) >= 1
  /\ PreOpp[1].price = Taker.price

\* C6: each match quantity is min(taker remaining, maker remaining) at its step; the
\* taker ends with its initial remaining minus its matches, every maker with its
\* remaining minus its matches (leaving the book at 0), no remaining is negative, and
\* a residual is returned exactly when the taker ends with remaining > 0.
C6_Quantities ==
  IsAdd =>
    LET ms == engineLast.matches
        n == Len(ms)
        takerLeft(k) == Taker.remaining - SumQty(ms, k)
        makerLeft(id, k) ==
          OrderById(PreOpp, id).remaining - SumQtyIf(ms, k, LAMBDA m : m.makerOrderId = id)
    IN /\ \A k \in 1..n :
            ms[k].quantity = Min(takerLeft(k - 1), makerLeft(ms[k].makerOrderId, k - 1))
       /\ takerLeft(n) >= 0
       /\ (engineLast.remainingOrder # NoOrder) <=> (takerLeft(n) > 0)
       /\ engineLast.remainingOrder # NoOrder =>
            /\ engineLast.remainingOrder.remaining = takerLeft(n)
            /\ Resting(PostOwn, Taker.id)
            /\ OrderById(PostOwn, Taker.id).remaining = takerLeft(n)
       /\ engineLast.remainingOrder = NoOrder => ~Resting(PostOwn, Taker.id)
       /\ \A i \in 1..Len(PreOpp) :
            LET id == PreOpp[i].id
            IN /\ makerLeft(id, n) >= 0
               /\ IF makerLeft(id, n) = 0 THEN ~Resting(PostOpp, id)
                  ELSE Resting(PostOpp, id) /\ OrderById(PostOpp, id).remaining = makerLeft(id, n)
       /\ \A i \in 1..Len(buyOrders) : buyOrders[i].remaining > 0
       /\ \A i \in 1..Len(sellOrders) : sellOrders[i].remaining > 0

\* a taker filled one maker completely, a second one partially, and was exhausted
C6_Witness ==
  /\ IsAdd
  /\ Len(engineLast.matches) = 2
  /\ engineLast.remainingOrder = NoOrder
  /\ Resting(PostOpp, engineLast.matches[2].makerOrderId)
  /\ ~Resting(PostOpp, engineLast.matches[1].makerOrderId)

----------------------------------------------------------------------------
\* C2: for every trade planned by calculateTradeSettlement with takerFee > 0, with the
\* maker on the SELL side and with the maker on the BUY side, deltaAvailable +
\* deltaReserved summed over the non-SYSTEM ledger entries is -takerFee, and summed over
\* all entries of the trade, the SYSTEM TRADE_FEE entry included, it is 0.
C2_TradeZeroSum ==
  (settleResult.called /\ settleInput.takerFee > 0) =>
    /\ SumDeltasIf(settleResult.ledgerEntries, LAMBDA e : e.userId # SYSTEM_USER_ID)
         = -settleInput.takerFee
    /\ SumDeltasIf(settleResult.ledgerEntries, LAMBDA e : TRUE) = 0

----------------------------------------------------------------------------
\* C1: after any sequence of placeOrder, cancelOrder, cancelMarket and resolveMarket
\* requests, accepted or rejected, every balance has available >= 0 and reserved >= 0
\* and every position has shares >= 0 and 0 <= reservedShares <= shares.
C1_NonNegative ==
  /\ \A u \in AllUsers : balances[u].available >= 0 /\ balances[u].reserved >= 0
  /\ \A u \in Users, oc \in Outcomes :
       /\ positions[u][oc].shares >= 0
       /\ positions[u][oc].reservedShares >= 0
       /\ positions[u][oc].reservedShares <= positions[u][oc].shares

\* a SELL placement hit a resting bid whose reservation was no longer held, and the
\* settlement of that match was refused by applyLedger, leaving reserved at 0
C1_Witness ==
  /\ lastEvent.op = "placeOrder"
  /\ lastEvent.status = 500
  /\ lastEvent.settled < Len(lastEvent.matches)
  /\ LET match == lastEvent.matches[lastEvent.settled + 1]
     IN /\ orders[match.makerOrderId].side = "BUY"
        /\ balances[match.makerUserId].reserved = 0
        /\ balances[match.makerUserId] = lastEvent.preBalances[match.makerUserId]

----------------------------------------------------------------------------
(* Helpers to read the order table and the last request *)

\* the sum of F(x) over the elements x of a sequence
SumOver(seq, F(_)) ==
  LET RECURSIVE S(_)
      S(k) == IF k = 0 THEN 0 ELSE S(k - 1) + F(seq[k])
  IN S(Len(seq))

\* price x remaining summed over the OPEN or PARTIAL BUY order rows of user u
OpenBuyCost(rows, u) ==
  SumOver(rows, LAMBDA o : IF o.userId = u /\ o.side = "BUY" /\ IsOpenOrder(o)
                           THEN o.price * o.remaining ELSE 0)

\* remaining summed over the OPEN or PARTIAL SELL order rows of user u on outcome oc
OpenSellShares(rows, u, oc) ==
  SumOver(rows, LAMBDA o : IF o.userId = u /\ o.outcome = oc /\ o.side = "SELL"
                              /\ IsOpenOrder(o)
                           THEN o.remaining ELSE 0)

\* the last request was an accepted BUY placement that was filled completely by asks
\* of other users
BuyFilledByOthers ==
  /\ lastEvent.op = "placeOrder"
  /\ lastEvent.status = 200
  /\ orders[lastEvent.orderId].side = "BUY"
  /\ orders[lastEvent.orderId].status = "FILLED"
  /\ \A k \in 1..Len(lastEvent.matches) :
       /\ lastEvent.matches[k].makerUserId # lastEvent.caller
       /\ lastEvent.matches[k].price <= orders[lastEvent.orderId].price

\* C8: when a BUY order with limit price P placed through placeOrder is completely
\* filled by resting asks at maker prices <= P, the buyer's reserved balance afterwards
\* holds nothing for that order (it is 0 when the buyer has no other open BUY, and in
\* general what it was before the placement) and the buyer's available balance has
\* decreased by exactly the trade value plus the taker fee (scenario S1: limit 0.60,
\* fill 50 @ 0.55, available 1000 -> 972.225, reserved 0).
C8_BuyFilledReleasesReserve ==
  BuyFilledByOthers =>
    LET u == lastEvent.caller
        value == SumOver(lastEvent.matches, LAMBDA m : m.price * m.quantity)
        fee == SumOver(lastEvent.matches, LAMBDA m : m.takerFee)
    IN /\ balances[u].reserved = lastEvent.preBalances[u].reserved
       /\ OpenBuyCost(orders, u) = 0 => balances[u].reserved = 0
       /\ balances[u].available = lastEvent.preBalances[u].available - value - fee

\* C9: after any sequence of placeOrder, cancelOrder, cancelMarket and resolveMarket
\* requests, the reserved balance of every user is at least the sum of price x
\* remaining over the user's persisted BUY orders with status OPEN or PARTIAL.
C9_ReservedCoversOpenBuys ==
  \A u \in Users : balances[u].reserved >= OpenBuyCost(orders, u)

\* C10: after any sequence of placeOrder, cancelOrder, cancelMarket and resolveMarket
\* requests, for every user and outcome of the market the position's reservedShares
\* is at least the sum of the remaining quantities of the user's persisted SELL orders
\* with status OPEN or PARTIAL on that outcome.
C10_ReservedSharesCoverOpenSells ==
  \A u \in Users, oc \in Outcomes :
    positions[u][oc].reservedShares >= OpenSellShares(orders, u, oc)

----------------------------------------------------------------------------
\* C11: a placeOrder whose order gets no match, followed by the cancelOrder of that
\* order, leaves every balance (available, reserved; no fee to SYSTEM) and every
\* position (shares, reservedShares) as they were before the placement, and the entry
\* of calculateOrderRelease(price, qty) is the exact negation of the entry of
\* calculateBuyReserve(price, qty).
C11_PlaceThenCancelRestores ==
  [][ (/\ lastEvent.op = "placeOrder" /\ lastEvent.status = 200
       /\ lastEvent.matches = <<>>
       /\ lastEvent'.op = "cancelOrder" /\ lastEvent'.status = 200
       /\ lastEvent'.orderId = lastEvent.orderId)
         => /\ balances' = lastEvent.preBalances
            /\ positions' = lastEvent.prePositions
            /\ \A u \in Users, price \in Prices, qty \in OrderQtys :
                 /\ calculateOrderRelease(u, price, qty).deltaAvailable
                      = -calculateBuyReserve(u, price, qty).deltaAvailable
                 /\ calculateOrderRelease(u, price, qty).deltaReserved
                      = -calculateBuyReserve(u, price, qty).deltaReserved ]_vars

\* a BUY that never matched was cancelled right after its placement: the last two
\* ledger rows are its reservation and the release of that reservation
C11_Witness ==
  /\ lastEvent.op = "cancelOrder" /\ lastEvent.status = 200
  /\ lastEvent.orderId = Len(orders)
  /\ orders[lastEvent.orderId].side = "BUY"
  /\ orders[lastEvent.orderId].remaining = orders[lastEvent.orderId].quantity
  /\ Len(ledger) >= 2
  /\ ledger[Len(ledger) - 1].reason = "ORDER_RESERVE"
  /\ ledger[Len(ledger)].reason = "ORDER_RESERVE_RELEASE"
  /\ ledger[Len(ledger)].userId = ledger[Len(ledger) - 1].userId
  /\ ledger[Len(ledger)].deltaReserved = -ledger[Len(ledger) - 1].deltaReserved
  /\ balances[orders[lastEvent.orderId].userId].reserved
       = lastEvent.preBalances[orders[lastEvent.orderId].userId].reserved
         + ledger[Len(ledger)].deltaReserved

\* C12: after a cancelOrder that succeeded, the cancelled order rests in no in-memory
\* book of the market, and no placeOrder produces a match whose maker is an order
\* that was CANCELLED before the placement.
C12_CancelledLeavesBook ==
  /\ (lastEvent.op = "cancelOrder" /\ lastEvent.status = 200) =>
       \A oc \in Outcomes :
         /\ ~Resting(orderBooks[oc].buyOrders, lastEvent.orderId)
         /\ ~Resting(orderBooks[oc].sellOrders, lastEvent.orderId)
  /\ lastEvent.op = "placeOrder" =>
       \A k \in 1..Len(lastEvent.matches) :
         lastEvent.preOrders[lastEvent.matches[k].makerOrderId].status # "CANCELLED"

\* C13: the persisted status of an order only moves OPEN -> PARTIAL -> FILLED or
\* {OPEN, PARTIAL} -> CANCELLED: no request changes the status or the remaining
\* quantity of an order that was CANCELLED or FILLED before it, and no request takes
\* a PARTIAL order back to OPEN.
C13_TerminalStatuses ==
  lastEvent.op # "none" =>
    \A i \in 1..Len(lastEvent.preOrders) :
      LET before == lastEvent.preOrders[i]
      IN /\ before.status \in {"CANCELLED", "FILLED"} =>
              /\ orders[i].status = before.status
              /\ orders[i].remaining = before.remaining
         /\ before.status = "PARTIAL" => orders[i].status # "OPEN"

\* the invariants of an Order row
OrderRowOk(o) ==
  /\ 0 <= o.remaining /\ o.remaining <= o.quantity
  /\ (o.status = "FILLED") <=> (o.remaining = 0)
  /\ o.status = "PARTIAL" => (0 < o.remaining /\ o.remaining < o.quantity)

\* C14: in every committed state of the order table, the states between the
\* transactions of one placement included, each order has 0 <= remaining <= quantity,
\* status FILLED exactly when remaining = 0, and status PARTIAL only when
\* 0 < remaining < quantity.
C14_OrderRowInvariants ==
  /\ \A i \in 1..Len(orders) : OrderRowOk(orders[i])
  /\ lastEvent.op = "placeOrder" =>
       \A c \in 1..Len(lastEvent.commits) :
         \A i \in 1..Len(lastEvent.commits[c]) : OrderRowOk(lastEvent.commits[c][i])

\* the rows and the books are what they were before the last request
NothingChanged ==
  /\ balances = lastEvent.preBalances
  /\ positions = lastEvent.prePositions
  /\ orders = lastEvent.preOrders
  /\ marketStatus = lastEvent.pre.marketStatus
  /\ resolutions = lastEvent.pre.resolutions
  /\ trades = lastEvent.pre.trades
  /\ ledger = lastEvent.pre.ledger
  /\ orderBooks = lastEvent.pre.orderBooks

\* C16: a resolveMarket or cancelMarket request on a market that is already RESOLVED
\* or CANCELLED is rejected as not open (400) and changes nothing: no ledger row is
\* appended and no balance, position, order, resolution or market status is modified.
C16_ClosedMarketRejects ==
  (/\ lastEvent.op \in {"resolveMarket", "cancelMarket"}
   /\ lastEvent.pre.marketStatus # "OPEN")
    => (lastEvent.status = 400 /\ NothingChanged)

\* a resolution was requested on a market resolved before, with settled positions
C16_Witness ==
  /\ lastEvent.op = "resolveMarket"
  /\ lastEvent.status = 400
  /\ lastEvent.pre.marketStatus = "RESOLVED"
  /\ Len(resolutions) = 1
  /\ \E k \in 1..Len(ledger) : ledger[k].reason = "SETTLEMENT_WIN"

\* C17: a cancelOrder on an order that is CANCELLED or FILLED is rejected as not
\* cancellable (400, for its owner and for an admin), a cancelOrder by a caller who is
\* neither the owner nor an admin is rejected (403), and a rejected cancelOrder
\* changes no balance, position, ledger row or order row.
C17_CancelRejected ==
  /\ \A caller \in Callers, id \in 1..Len(orders) :
       LET r == cancelOrderRequest(Db, caller, id)
       IN /\ (caller # orders[id].userId /\ caller # "admin") => r.status = 403
          /\ (/\ orders[id].status \in {"CANCELLED", "FILLED"}
              /\ (caller = orders[id].userId \/ caller = "admin")) => r.status = 400
  /\ (lastEvent.op = "cancelOrder" /\ lastEvent.status \in {400, 403}) => NothingChanged

\* a cancelOrder was refused as not cancellable while the market was open, the table
\* holding a FILLED and a CANCELLED order
C17_Witness ==
  /\ lastEvent.op = "cancelOrder"
  /\ lastEvent.status = 400
  /\ marketStatus = "OPEN"
  /\ \E i, j \in 1..Len(orders) : orders[i].status = "FILLED" /\ orders[j].status = "CANCELLED"

\* the checks that make POST /:id/orders refuse a request of user u with body o
MustReject(u, o) ==
  \/ o.quantity <= 0 \/ o.quantity > MaxQuantity
  \/ o.price < MinPrice \/ o.price > MaxPrice
  \/ marketStatus # "OPEN"
  \/ (o.side = "BUY" /\ balances[u].available < o.price * o.quantity)
  \/ (o.side = "SELL"
        /\ positions[u][o.outcome].shares - positions[u][o.outcome].reservedShares
             < o.quantity)

C19_FailedPlacementRollsBack ==
  (lastEvent.op = "placeOrder" /\ lastEvent.status = 500 /\ lastEvent.orderId # 0)
    => NothingChanged


----------------------------------------------------------------------------
(* Requests served concurrently *)

\* C15: once the market is RESOLVED or CANCELLED its status never changes again, and
\* at most one resolution is recorded, whatever the interleaving of the resolveMarket
\* and cancelMarket requests.
C15_TerminalMarketStatus ==
  [][/\ marketStatus \in {"RESOLVED", "CANCELLED"} => marketStatus' = marketStatus
     /\ Len(resolutions') <= 1]_vars

\* a placement whose match has left the book and whose settlement is not committed yet
MatchUnsettled(req) == req.op = "placeOrder" /\ req.pc = "settle"

\* C20: at most one request on the market is in progress at any instant, so that no
\* other request runs between the book mutation of a match and its settlement.
C20_OneRequestInProgress ==
  /\ Len(inflight) <= 1
  /\ \A i \in 1..Len(inflight) : MatchUnsettled(inflight[i]) => Len(inflight) = 1

\* C21: two concurrent BUY placements of one user whose combined cost exceeds the
\* available balance are not both accepted: every user's reserved balance covers the
\* cost of all of that user's open BUY orders, and no reservation is overwritten.
C21_ConcurrentBuysReserved ==
  \A u \in Users :
    /\ OpenBuyCost(orders, u) <= balances[u].reserved
    /\ balances[u].available + balances[u].reserved = 
         IF u = "u1" THEN 10000000 ELSE 300000

\* the same where the upsert of applyLedger locks the row
C21_HoldsWithRowLocking == rowLocking => C21_ConcurrentBuysReserved

----------------------------------------------------------------------------
(* Resolution and cancellation plans *)

\* the rows calculateSettlement has to settle: those of the market that hold shares
SettledRows ==
  SelectSeq(settleInput.positions, LAMBDA p : p.marketId = MarketId /\ p.shares > 0)

\* C22: calculateSettlement emits, for each position of the market with shares > 0 and
\* for no other, exactly one entry: +shares to available as SETTLEMENT_WIN if the
\* position is on the winning outcome, a zero-delta SETTLEMENT_LOSS otherwise; and it
\* sets shares and reservedShares of each of these positions to 0.
C22_SettlementPlan ==
  (settleResult.called /\ settleInput.kind = "settlement") =>
    /\ Len(settleResult.ledgerEntries) = Len(SettledRows)
    /\ Len(settleResult.positionUpdates) = Len(SettledRows)
    /\ \A k \in 1..Len(SettledRows) :
         LET p == SettledRows[k]
             e == settleResult.ledgerEntries[k]
             c == settleResult.positionUpdates[k]
         IN /\ e.userId = p.userId /\ e.deltaReserved = 0
            /\ IF p.outcome = settleInput.winningOutcome
               THEN e.reason = "SETTLEMENT_WIN" /\ e.deltaAvailable = p.shares * SharePayout
               ELSE e.reason = "SETTLEMENT_LOSS" /\ e.deltaAvailable = 0
            /\ c.userId = p.userId /\ c.outcome = p.outcome
            /\ c.newShares = 0 /\ c.newReservedShares = 0

\* a plan with a winner and a loser, computed from rows of which some are skipped
C22_Witness ==
  /\ settleResult.called /\ settleInput.kind = "settlement"
  /\ Len(settleResult.ledgerEntries) = 2
  /\ Len(settleInput.positions) = 3
  /\ \E k \in 1..3 : /\ settleInput.positions[k].marketId # MarketId
                      /\ settleInput.positions[k].shares > 0
  /\ settleResult.ledgerEntries[1].reason = "SETTLEMENT_WIN"
  /\ settleResult.ledgerEntries[2].reason = "SETTLEMENT_LOSS"

\* the ledger rows the last request appended
AppliedEntries == SubSeq(ledger, Len(lastEvent.pre.ledger) + 1, Len(ledger))

\* C23: the ledger entries a resolveMarket event applies sum, over all users and over
\* deltaAvailable + deltaReserved, to 0.
C23_ResolveZeroSum ==
  (lastEvent.op = "resolveMarket" /\ lastEvent.status = 200) =>
    SumDeltasIf(AppliedEntries, LAMBDA e : TRUE) = 0

\* the open BUY rows before the last request, in the order findMany returned them
PreOpenBuys ==
  SelectSeq(lastEvent.preOrders, LAMBDA o : IsOpenOrder(o) /\ o.side = "BUY")

\* C24: cancelMarket on an OPEN market moves price x remaining of every open BUY from
\* its owner's reserved to available under MARKET_CANCEL_REFUND, releases the summed
\* remaining of the open SELLs of every (user, outcome) from reservedShares, changes no
\* total of available + reserved and no shares, pays nothing else, and sets every open
\* order and the market to CANCELLED.
C24_CancelMarketEffect ==
  (lastEvent.op = "cancelMarket" /\ lastEvent.pre.marketStatus = "OPEN") =>
    /\ lastEvent.status = 200
    /\ marketStatus = "CANCELLED"
    /\ \A i \in 1..Len(orders) :
         orders[i] = IF IsOpenOrder(lastEvent.preOrders[i])
                     THEN [lastEvent.preOrders[i] EXCEPT !.status = "CANCELLED"]
                     ELSE lastEvent.preOrders[i]
    /\ Len(AppliedEntries) = Len(PreOpenBuys)
    /\ \A k \in 1..Len(PreOpenBuys) :
         AppliedEntries[k] =
           LedgerEntry(PreOpenBuys[k].userId, PreOpenBuys[k].price * PreOpenBuys[k].remaining,
                       -(PreOpenBuys[k].price * PreOpenBuys[k].remaining),
                       "MARKET_CANCEL_REFUND")
    /\ \A u \in AllUsers :
         /\ balances[u].reserved =
              lastEvent.preBalances[u].reserved - OpenBuyCost(lastEvent.preOrders, u)
         /\ balances[u].available =
              lastEvent.preBalances[u].available + OpenBuyCost(lastEvent.preOrders, u)
    /\ \A u \in Users, oc \in Outcomes :
         /\ positions[u][oc].shares = lastEvent.prePositions[u][oc].shares
         /\ positions[u][oc].reservedShares =
              lastEvent.prePositions[u][oc].reservedShares
                - OpenSellShares(lastEvent.preOrders, u, oc)
    /\ trades = lastEvent.pre.trades /\ resolutions = lastEvent.pre.resolutions

\* C25: once the market is RESOLVED or CANCELLED no order is OPEN or PARTIAL, both
\* books are empty, nothing is reserved for orders, and after a resolution every
\* position is cleared; also while a placement is in flight.
C25_TerminalMarketIsDrained ==
  marketStatus \in {"RESOLVED", "CANCELLED"} =>
    /\ \A i \in 1..Len(orders) : ~IsOpenOrder(orders[i])
    /\ orderBooks = EmptyBooks
    /\ \A u \in Users : balances[u].reserved = 0
    /\ \A u \in Users, oc \in Outcomes : positions[u][oc].reservedShares = 0
    /\ marketStatus = "RESOLVED" =>
         \A u \in Users, oc \in Outcomes : positions[u][oc].shares = 0

----------------------------------------------------------------------------
(* Restart *)

\* the ids and remaining quantities of the orders resting on one side of a book
RestingOrders(book) == { <<book[k].id, book[k].remaining>> : k \in 1..Len(book) }

\* the ids and remaining quantities of the persisted open orders of an outcome and side
PersistedOpen(oc, side) ==
  { <<orders[i].id, orders[i].remaining>> :
      i \in { j \in 1..Len(orders) : /\ IsOpenOrder(orders[j])
                                     /\ orders[j].outcome = oc /\ orders[j].side = side } }

\* C26: after a restart, before the next request, the books hold exactly the persisted
\* OPEN and PARTIAL orders with their persisted remaining quantity.
C26_BooksRebuiltOnRestart ==
  lastEvent.op = "restart" =>
    \A oc \in Outcomes :
      /\ RestingOrders(orderBooks[oc].buyOrders) = PersistedOpen(oc, "BUY")
      /\ RestingOrders(orderBooks[oc].sellOrders) = PersistedOpen(oc, "SELL")

----------------------------------------------------------------------------
(* Two engines with the same fee configuration, as createMarketOrderBooks makes them, *)
(* driven with the same calls: orderBooks.YES is the first, orderBooks.NO the second. *)
(* The caller hands the same order object to the first and then to the second.        *)

\* mutant of CallerOrderAfter: addOrder works on the caller's object, not on a copy
CallerOrderAfterNoCopy(order, result) ==
  [order EXCEPT !.remaining = @ - SumOver(result.matches, LAMBDA m : m.quantity)]

\* the caller's order object after addOrder returned: let currentOrder = { ...order }
CallerOrderAfter(order, result) == order

TwinAddOrder ==
  /\ engineCalls < MaxEngineOrders
  /\ \E side \in Sides, price \in Prices, qty \in Qtys, t \in Times :
       LET order == EngineOrder(engineCalls + 1, EngineUser(engineCalls + 1), side, price, qty, t)
       IN \E r1 \in {addOrder(orderBooks["YES"].buyOrders, orderBooks["YES"].sellOrders, order)} :
          \E r2 \in {addOrder(orderBooks["NO"].buyOrders, orderBooks["NO"].sellOrders,
                               CallerOrderAfter(order, r1))} :
            /\ orderBooks' = [YES |-> [buyOrders |-> r1.buys, sellOrders |-> r1.sells],
                              NO |-> [buyOrders |-> r2.buys, sellOrders |-> r2.sells]]
            /\ lastEvent' = [op |-> "addOrder", status |-> 0,
                             first |-> [matches |-> r1.matches, result |-> r1.remainingOrder],
                             second |-> [matches |-> r2.matches, result |-> r2.remainingOrder]]
  /\ engineCalls' = engineCalls + 1
  /\ UNCHANGED <<buyOrders, sellOrders, engineLast, settleVars, concVars,
                 marketStatus, resolutions, balances, positions, orders, trades, ledger>>

TwinCancelOrder ==
  /\ \E orderId \in 1..(engineCalls + 1) :
       \E r1 \in {cancelOrder(orderBooks["YES"].buyOrders, orderBooks["YES"].sellOrders, orderId)} :
       \E r2 \in {cancelOrder(orderBooks["NO"].buyOrders, orderBooks["NO"].sellOrders, orderId)} :
         /\ orderBooks' = [YES |-> [buyOrders |-> r1.buys, sellOrders |-> r1.sells],
                           NO |-> [buyOrders |-> r2.buys, sellOrders |-> r2.sells]]
         /\ lastEvent' = [op |-> "cancelOrder", status |-> 0,
                          first |-> [matches |-> <<>>, result |-> r1.removed],
                          second |-> [matches |-> <<>>, result |-> r2.removed]]
  /\ UNCHANGED <<engineVars, settleVars, concVars,
                 marketStatus, resolutions, balances, positions, orders, trades, ledger>>

NextTwin == TwinAddOrder \/ TwinCancelOrder

SpecTwin == Init /\ [][NextTwin]_vars

----------------------------------------------------------------------------
(* Settlement of one trade *)

TradeValue == settleInput.quantity * settleInput.price

\* the entries of a trade whose maker sold: buyer = taker, seller = maker
ExpectedMakerSell(withFeeEntries) ==
  [ledgerEntries |->
     <<LedgerEntry(settleInput.takerUserId, 0, -TradeValue, "TRADE_BUY")>>
     \o (IF withFeeEntries
         THEN <<LedgerEntry(settleInput.takerUserId, -settleInput.takerFee, 0, "TRADE_FEE"),
                LedgerEntry(SYSTEM_USER_ID, settleInput.takerFee, 0, "TRADE_FEE")>>
         ELSE <<>>)
     \o <<LedgerEntry(settleInput.makerUserId, TradeValue - settleInput.takerFee, 0,
                      "TRADE_SELL")>>,
   positionUpdates |->
     <<[userId |-> settleInput.takerUserId, outcome |-> settleInput.outcome,
        deltaShares |-> settleInput.quantity, deltaReservedShares |-> 0,
        tradePrice |-> settleInput.price],
       [userId |-> settleInput.makerUserId, outcome |-> settleInput.outcome,
        deltaShares |-> -settleInput.quantity,
        deltaReservedShares |-> -settleInput.quantity,
        tradePrice |-> settleInput.price]>>]

\* the entries of a trade whose maker bought: buyer = maker, seller = taker
ExpectedMakerBuy(withFeeEntries) ==
  [ledgerEntries |->
     <<LedgerEntry(settleInput.makerUserId, 0, -TradeValue, "TRADE_BUY"),
       LedgerEntry(settleInput.takerUserId, TradeValue - settleInput.takerFee, 0,
                   "TRADE_SELL")>>
     \o (IF withFeeEntries
         THEN <<LedgerEntry(SYSTEM_USER_ID, settleInput.takerFee, 0, "TRADE_FEE")>>
         ELSE <<>>),
   positionUpdates |->
     <<[userId |-> settleInput.makerUserId, outcome |-> settleInput.outcome,
        deltaShares |-> settleInput.quantity, deltaReservedShares |-> 0,
        tradePrice |-> settleInput.price],
       [userId |-> settleInput.takerUserId, outcome |-> settleInput.outcome,
        deltaShares |-> -settleInput.quantity,
        deltaReservedShares |-> -settleInput.quantity,
        tradePrice |-> settleInput.price]>>]

Returned ==
  [ledgerEntries |-> settleResult.ledgerEntries,
   positionUpdates |-> settleResult.positionUpdates]

\* C28 as amended: calculateTradeSettlement returns the TRADE_BUY entry (-q*p on the
\* buyer's reserved), the TRADE_SELL entry (q*p - f on the seller's available), the two
\* position updates (+q for the buyer at trade price p; -q shares and -q reserved shares
\* for the seller) and, only if f > 0, the TRADE_FEE entries: -f for a buying taker and
\* +f for SYSTEM when the maker sold, +f for SYSTEM when the maker bought.
C28_TradeSettlementEntries ==
  settleResult.called =>
    Returned = IF settleInput.makerSide = "SELL"
               THEN ExpectedMakerSell(settleInput.takerFee > 0)
               ELSE ExpectedMakerBuy(settleInput.takerFee > 0)

\* a trade between two users whose maker bought, settled with a fee
C28_Witness ==
  /\ settleResult.called
  /\ settleInput.makerSide = "BUY" /\ settleInput.takerFee > 0
  /\ settleInput.makerUserId # settleInput.takerUserId
  /\ Len(settleResult.ledgerEntries) = 3

\* C28 as written: the TRADE_FEE entries are returned for every taker fee f.
C28_FeeEntriesAlways ==
  settleResult.called =>
    Returned = IF settleInput.makerSide = "SELL"
               THEN ExpectedMakerSell(TRUE) ELSE ExpectedMakerBuy(TRUE)

----------------------------------------------------------------------------
(* applyLedger and applyLedgerBatch *)

\* the balances after all of the entries, whatever the signs on the way
RECURSIVE BalancesAfter(_, _)
BalancesAfter(bal, entries) ==
  IF entries = <<>> THEN bal
  ELSE BalancesAfter(
         [bal EXCEPT ![Head(entries).userId] =
            [available |-> @.available + Head(entries).deltaAvailable,
             reserved |-> @.reserved + Head(entries).deltaReserved]],
         Tail(entries))

\* no entry of the batch, applied after those before it, gives a negative balance
BatchAccepted(bal, entries) ==
  \A k \in 1..Len(entries) :
    LET b == BalancesAfter(bal, SubSeq(entries, 1, k))[entries[k].userId]
    IN b.available >= 0 /\ b.reserved >= 0

\* C29: applyLedger appends exactly one entry and sets the balance to (available +
\* deltaAvailable, reserved + deltaReserved), or, when one of the two would be negative,
\* fails without appending or changing anything; applyLedgerBatch in one transaction
\* applies all of its entries or none.
C29_LedgerAllOrNothing ==
  (settleResult.called /\ settleInput.kind = "ledger") =>
    /\ \A k \in 1..Len(settleInput.entries) :
         LET e == settleInput.entries[k]
             r == applyLedger(Db, e)
             newAvailable == balances[e.userId].available + e.deltaAvailable
             newReserved == balances[e.userId].reserved + e.deltaReserved
         IN IF newAvailable >= 0 /\ newReserved >= 0
            THEN /\ r.ok
                 /\ r.ledger = Append(ledger, e)
                 /\ r.balances = [balances EXCEPT ![e.userId] =
                                    [available |-> newAvailable, reserved |-> newReserved]]
            ELSE /\ ~r.ok
                 /\ r.ledger = ledger
                 /\ r.balances = balances
    /\ settleResult.ok = BatchAccepted(settleResult.preBalances, settleInput.entries)
    /\ IF settleResult.ok
       THEN /\ ledger = settleResult.preLedger \o settleInput.entries
            /\ balances = BalancesAfter(settleResult.preBalances, settleInput.entries)
       ELSE /\ ledger = settleResult.preLedger
            /\ balances = settleResult.preBalances

\* a batch whose first entry is accepted and whose second is refused
C29_Witness ==
  /\ settleResult.called /\ settleInput.kind = "ledger"
  /\ Len(settleInput.entries) = 2
  /\ applyLedger(Db, settleInput.entries[1]).ok
  /\ ~settleResult.ok
  /\ ledger = <<>>

----------------------------------------------------------------------------
(* MatchingEngine.getOrderBook *)

\* the levels are one per distinct price of the resting orders, in the given priority
\* order, each with the summed remaining quantity and the number of orders at its price
LevelsOf(levels, bookOrders, Before(_, _)) ==
  /\ { levels[i].price : i \in 1..Len(levels) } =
       { bookOrders[j].price : j \in 1..Len(bookOrders) }
  /\ \A i, j \in 1..Len(levels) : i < j => Before(levels[i].price, levels[j].price)
  /\ \A i \in 1..Len(levels) :
       LET atPrice == SelectSeq(bookOrders, LAMBDA o : o.price = levels[i].price)
       IN /\ levels[i].quantity = SumOver(atPrice, LAMBDA o : o.remaining)
          /\ levels[i].orderCount = Len(atPrice)

\* C30: getOrderBook returns, for each side, one level per distinct price among the
\* resting orders, bids by descending and asks by ascending price, each level's
\* quantity the sum of the remaining quantities and its orderCount the number of the
\* resting orders at that price.
C30_OrderBookLevels ==
  (engineLast.op = "getOrderBook") =>
    /\ LevelsOf(engineLast.snapshot.bids, buyOrders, LAMBDA p, q : p > q)
    /\ LevelsOf(engineLast.snapshot.asks, sellOrders, LAMBDA p, q : p < q)

\* a snapshot with a level of two resting orders, one of them partly filled
C30_Witness ==
  /\ engineLast.op = "getOrderBook"
  /\ Len(engineLast.snapshot.asks) = 1
  /\ engineLast.snapshot.asks[1].orderCount = 2
  /\ engineLast.snapshot.asks[1].quantity <
       SumOver(sellOrders, LAMBDA o : o.quantity)

----------------------------------------------------------------------------
(* Best prices and midpoint *)

PricesOf(bookOrders) == { bookOrders[i].price : i \in 1..Len(bookOrders) }

HighestOf(ps) == CHOOSE p \in ps : \A q \in ps : q <= p

LowestOf(ps) == CHOOSE p \in ps : \A q \in ps : p <= q

\* C31: getBestBid returns the highest price among the resting BUY orders and
\* getBestAsk the lowest among the resting SELL orders, null for an empty side;
\* getMidpoint returns (bestBid + bestAsk) / 2 when both sides are non-empty, the one
\* existing best price when only one side is, and null for an empty book.
C31_BestPrices ==
  /\ (engineLast.op = "getBestBid") =>
       engineLast.result =
         IF buyOrders = <<>> THEN <<>> ELSE <<HighestOf(PricesOf(buyOrders))>>
  /\ (engineLast.op = "getBestAsk") =>
       engineLast.result =
         IF sellOrders = <<>> THEN <<>> ELSE <<LowestOf(PricesOf(sellOrders))>>
  /\ (engineLast.op = "getMidpoint") =>
       IF buyOrders # <<>> /\ sellOrders # <<>>
       THEN /\ Len(engineLast.result) = 1
            /\ 2 * engineLast.result[1] =
                 HighestOf(PricesOf(buyOrders)) + LowestOf(PricesOf(sellOrders))
       ELSE IF buyOrders # <<>>
       THEN engineLast.result = <<HighestOf(PricesOf(buyOrders))>>
       ELSE IF sellOrders # <<>>
       THEN engineLast.result = <<LowestOf(PricesOf(sellOrders))>>
       ELSE engineLast.result = <<>>

\* the midpoint of a book with orders resting on both sides
C31_Witness ==
  /\ engineLast.op = "getMidpoint"
  /\ buyOrders # <<>> /\ sellOrders # <<>>
  /\ engineLast.result = <<5750>>

----------------------------------------------------------------------------
(* MatchingEngine.cancelOrder *)

\* the orders of a side other than the one with the given id, in their order
Without(bookOrders, orderId) == SelectSeq(bookOrders, LAMBDA o : o.id # orderId)

IsResting(bookOrders, orderId) == \E i \in 1..Len(bookOrders) : bookOrders[i].id = orderId

\* C32: cancelOrder(id) removes and returns the resting order with that id from the
\* side that holds it and leaves every other resting order, its remaining quantity and
\* the order of both sides unchanged; for an id that is not resting it returns null and
\* changes nothing.
C32_EngineCancelFrame ==
  (engineLast.op = "cancelOrder") =>
    LET id == engineLast.order.id
        pre == engineLast.preBuys \o engineLast.preSells
    IN IF IsResting(pre, id)
       THEN /\ engineLast.remainingOrder \in { pre[i] : i \in 1..Len(pre) }
            /\ engineLast.remainingOrder.id = id
            /\ buyOrders = Without(engineLast.preBuys, id)
            /\ sellOrders = Without(engineLast.preSells, id)
            /\ Len(buyOrders) + Len(sellOrders) = Len(pre) - 1
       ELSE /\ engineLast.remainingOrder = NoOrder
            /\ buyOrders = engineLast.preBuys
            /\ sellOrders = engineLast.preSells

\* the second of two resting SELL orders cancelled, the first one partly filled
C32_Witness ==
  /\ engineLast.op = "cancelOrder"
  /\ Len(engineLast.preSells) = 2
  /\ engineLast.order.id = engineLast.preSells[2].id
  /\ Len(sellOrders) = 1
  /\ sellOrders[1].remaining < sellOrders[1].quantity

----------------------------------------------------------------------------
(* The status in the reply of a placement *)

\* C33: the status returned by placeOrder equals the order's persisted status when the
\* request completes: FILLED when no residual remains, PARTIAL when the order had at
\* least one match and a residual rests, OPEN when it had no match.
C33_ReplyStatusIsPersisted ==
  (lastEvent.op = "placeOrder" /\ lastEvent.status = 200) =>
    LET order == orders[lastEvent.orderId]
    IN /\ lastEvent.dataStatus = order.status
       /\ order.status = IF order.remaining = 0 THEN "FILLED"
                         ELSE IF lastEvent.matches # <<>> THEN "PARTIAL"
                         ELSE "OPEN"

\* the persisted status alone follows the rule
C33_PersistedStatus ==
  (lastEvent.op = "placeOrder" /\ lastEvent.status = 200) =>
    LET order == orders[lastEvent.orderId]
    IN order.status = IF order.remaining = 0 THEN "FILLED"
                      ELSE IF lastEvent.matches # <<>> THEN "PARTIAL"
                      ELSE "OPEN"

----------------------------------------------------------------------------
(* The share operations on a position *)

ShareCall(op) ==
  settleResult.called /\ settleInput.kind = "position" /\ settleInput.op = op

\* C34: reserveShares, releaseReservedShares and consumeReservedShares return a
\* position with shares >= 0 and 0 <= reservedShares <= shares or throw
\* PositionInvariantError; reserve(q) succeeds only if shares - reservedShares >= q and
\* adds q to reservedShares only; release(q) fails if reservedShares - q < 0;
\* consumeReserved(q) subtracts q from shares and reservedShares alike, so that shares -
\* reservedShares stays; reserve(q) followed by release(q) returns the original position.
C34_ShareOperations ==
  LET p == settleInput.position
      q == settleInput.amount
      r == settleResult.result
  IN /\ (settleResult.called /\ settleInput.kind = "position" /\ ~r.threw) =>
          /\ r.position.shares >= 0
          /\ r.position.reservedShares >= 0
          /\ r.position.reservedShares <= r.position.shares
     /\ (ShareCall("reserveShares") /\ ~r.threw) =>
          /\ p.shares - p.reservedShares >= q
          /\ r.position = [p EXCEPT !.reservedShares = p.reservedShares + q]
     /\ (ShareCall("releaseReservedShares") /\ p.reservedShares - q < 0) => r.threw
     /\ (ShareCall("releaseReservedShares") /\ ~r.threw) =>
          r.position = [p EXCEPT !.reservedShares = p.reservedShares - q]
     /\ (ShareCall("consumeReservedShares") /\ ~r.threw) =>
          /\ r.position = [p EXCEPT !.shares = p.shares - q,
                                    !.reservedShares = p.reservedShares - q]
          /\ r.position.shares - r.position.reservedShares = p.shares - p.reservedShares
     /\ ShareCall("reserveThenRelease") =>
          IF reserveShares(p, q).threw THEN r.threw ELSE r = PositionResult(p)

\* 30 of 100 shares, none reserved before, reserved and released again
C34_Witness ==
  /\ ShareCall("reserveThenRelease")
  /\ settleInput.amount = 30
  /\ settleInput.position.shares = 100
  /\ settleInput.position.reservedShares = 0
  /\ ~settleResult.result.threw
  /\ reserveShares(settleInput.position, 30).position.reservedShares = 30

----------------------------------------------------------------------------
(* The book is never crossed *)

\* C35: after any sequence of addOrder, cancelOrder and clearAllOrders calls with
\* positive quantities the best bid is strictly below the best ask whenever both sides
\* are non-empty, and every resting order has remaining > 0.
C35_BookNeverCrossed ==
  /\ (buyOrders # <<>> /\ sellOrders # <<>>) =>
       /\ buyOrders[1].price < sellOrders[1].price
       /\ HighestOf(PricesOf(buyOrders)) < LowestOf(PricesOf(sellOrders))
  /\ \A i \in 1..Len(buyOrders) : buyOrders[i].remaining > 0
  /\ \A i \in 1..Len(sellOrders) : sellOrders[i].remaining > 0

\* a SELL at the price of the only bid took a part of it and did not rest; an ask at a
\* higher price rests
C35_Witness ==
  /\ engineLast.op = "addOrder"
  /\ engineLast.order.side = "SELL"
  /\ engineLast.matches # <<>>
  /\ buyOrders # <<>> /\ sellOrders # <<>>
  /\ buyOrders[1].remaining < buyOrders[1].quantity

----------------------------------------------------------------------------
(* A BUY placement that passed the funds check *)

\* C36: a BUY placement accepted under the funds check available >= price x quantity
\* does not fail afterwards while settling its own matches: every match it triggered
\* is settled and the request succeeds, also when the order takes the user's entire
\* available balance.
C36_AcceptedBuySettles ==
  (/\ lastEvent.op = "placeOrder"
   /\ lastEvent.orderId # 0
   /\ orders[lastEvent.orderId].side = "BUY") =>
    /\ lastEvent.status = 200
    /\ lastEvent.settled = Len(lastEvent.matches)

----------------------------------------------------------------------------
(* The books against the order table *)

\* C37: after any sequence of successfully completed placeOrder requests, without
\* cancels and restarts, the orders resting in the in-memory books are exactly the
\* persisted orders with status OPEN or PARTIAL, each with its persisted remaining.
C37_BooksMatchOrderRows ==
  \A oc \in Outcomes :
    /\ RestingOrders(orderBooks[oc].buyOrders) = PersistedOpen(oc, "BUY")
    /\ RestingOrders(orderBooks[oc].sellOrders) = PersistedOpen(oc, "SELL")

\* three placements, the last one matched, a partly filled order resting
C37_Witness ==
  /\ Len(orders) = 3
  /\ lastEvent.op = "placeOrder" /\ lastEvent.matches # <<>>
  /\ \E i \in 1..Len(orders) :
       /\ orders[i].status = "PARTIAL"
       /\ \E k \in 1..Len(orderBooks[orders[i].outcome].sellOrders) :
            /\ orderBooks[orders[i].outcome].sellOrders[k].id = i
            /\ orderBooks[orders[i].outcome].sellOrders[k].remaining < orders[i].quantity
  /\ \E i \in 1..Len(orders) : orders[i].status = "FILLED"

----------------------------------------------------------------------------
(* Order cancels racing each other and fills *)

\* the ledger entries a step appended
Appended == SubSeq(ledger', Len(ledger) + 1, Len(ledger'))

\* C38: under any interleaving of cancelOrder requests with each other and with
\* placements that match the same order as maker, every release of a reservation
\* belongs to an order that was open until that step and is cancelled by it, and
\* releases price x the remaining quantity the order has at that moment: no order is
\* released twice, and no quantity that a fill consumed is released.
C38_ReleasedOnceAtCommit ==
  [][\A k \in 1..Len(Appended) :
       (Appended[k].reason = "ORDER_RESERVE_RELEASE") =>
         \E id \in 1..Len(orders) :
           /\ IsOpenOrder(orders[id])
           /\ orders'[id].status = "CANCELLED"
           /\ orders[id].userId = Appended[k].userId
           /\ Appended[k].deltaAvailable = orders[id].price * orders[id].remaining]_vars

----------------------------------------------------------------------------
(* The ledger and its projection *)

\* the seeded balance of a user, the starting point of the projection
SeededAvailable(u) == IF u = "u1" THEN 10000000 ELSE IF u = "u2" THEN 300000 ELSE 0

EntriesOf(u) == SelectSeq(ledger, LAMBDA e : e.userId = u)

\* C39: the balance table is the projection of the ledger: for every user, available
\* is the starting balance plus the sum of deltaAvailable and reserved the sum of
\* deltaReserved over all of that user's ledger entries, after any sequence and
\* interleaving of the operations.
C39_BalanceIsLedgerProjection ==
  \A u \in AllUsers :
    /\ balances[u].available =
         SeededAvailable(u) + SumOver(EntriesOf(u), LAMBDA e : e.deltaAvailable)
    /\ balances[u].reserved = SumOver(EntriesOf(u), LAMBDA e : e.deltaReserved)

\* the same where the upsert of applyLedger locks the row
C39_HoldsWithRowLocking == rowLocking => C39_BalanceIsLedgerProjection

\* no step updates or deletes a ledger entry
C39_AppendOnly ==
  [][/\ Len(ledger') >= Len(ledger)
     /\ SubSeq(ledger', 1, Len(ledger)) = ledger]_vars

----------------------------------------------------------------------------
(* addOrder is total *)

\* C40: addOrder returns for every order with remaining > 0 on every reachable book:
\* every iteration of its loop matches a positive quantity and either exhausts the
\* taker or removes the head maker, and the number of matches returned is at most the
\* number of orders resting on the opposite side before the call.
C40_AddOrderTotal ==
  IsAdd =>
    LET ms == engineLast.matches
        n == Len(ms)
    IN /\ n <= Len(PreOpp)
       /\ \A k \in 1..n :
            /\ ms[k].quantity > 0
            /\ ms[k].makerOrderId = PreOpp[k].id
            /\ \/ ~Resting(PostOpp, ms[k].makerOrderId)
               \/ k = n /\ SumQty(ms, n) = Taker.remaining
       /\ \/ engineLast.remainingOrder = NoOrder
          \/ /\ engineLast.remainingOrder.id = Taker.id
             /\ engineLast.remainingOrder.remaining > 0

\* a taker swept both resting orders of the opposite side and rests with what is left
C40_Witness ==
  /\ IsAdd
  /\ Len(PreOpp) = 2
  /\ Len(engineLast.matches) = 2
  /\ PostOpp = <<>>
  /\ engineLast.remainingOrder # NoOrder
====
